---- MODULE Spec2Model ----
(***************************************************************************)
(* Verification model of the texture-sampling oracle's harness             *)
(* (webgpu/shader/execution/expression/call/builtin/texture_utils):        *)
(*   Spec         - mip-weight calibration: initMipLevelWeightsForDevice,  *)
(*                  its two module-level maps and the promise reactions,   *)
(*                  run on a single cooperative thread with a FIFO         *)
(*                  microtask queue;                                       *)
(*   SpecValidate - the tail of queryMipLevelMixWeightsForDevice           *)
(*                  (validateWeights on the two probed curves);            *)
(*   SpecRun      - binCalls and the read-back of createTextureCallsRunner;*)
(*   SpecCheck    - the comparison loop of checkCallResults.               *)
(***************************************************************************)
EXTENDS Integers, Sequences, FiniteSets, TLC

VARIABLES
  \* ---- Spec: calibration ----
  promises,                          \* heap of Promise<MipWeights> objects, by creation order
  s_deviceToMipLevelWeightsPromise,  \* device -> (stage -> promise id)
  s_deviceToMipLevelWeights,         \* device -> (stage -> MipWeights)
  microtasks,                        \* FIFO queue of promise reaction jobs
  callers,                           \* the subcases calling initMipLevelWeightsForDevice
  unhandled,                         \* promises of the .then().catch() chain rejected with no handler
  \* ---- SpecValidate ----
  vq,                                \* one run of the tail of queryMipLevelMixWeightsForDevice
  \* ---- SpecRun ----
  rn,                                \* one createTextureCallsRunner + run
  \* ---- SpecCheck ----
  ck,                                \* one checkCallResults run
  \* ---- the specifications of single oracle and generator functions ----
  sw                                 \* one application of the function under study

vars == <<promises, s_deviceToMipLevelWeightsPromise, s_deviceToMipLevelWeights,
          microtasks, callers, unhandled, vq, rn, ck, sw>>

calVars == <<promises, s_deviceToMipLevelWeightsPromise, s_deviceToMipLevelWeights,
             microtasks, callers, unhandled>>

Min(a, b) == IF a < b THEN a ELSE b
Max(a, b) == IF a > b THEN a ELSE b

(***************************************************************************)
(* Bounds                                                                  *)
(***************************************************************************)
MaxCallers == 3
NumDevices == 2
MaxCap == 15
MaxDipAt == 2
MaxRunCalls == 3
MaxCheckCalls == 2
MaxLoadIndex == 1
MaxDelta == 5
MaxCubeMipLevel == 1
MaxGenStep == 10
MaxBiasStep == 2
MaxLevelStep == 6
MaxGatherCoord == 8
MaxRefStep == 4
MaxLinearStep == 1
MaxAddressSize == 4
MaxAddressPeriods == 3
MaxMixLevel == 4
MaxCacheCalls == 2
MaxLodStep == 4
MaxTexels == 5
MaxChooseLevels == 3

(***************************************************************************)
(* Weight curves.  A curve is a function 0..kMipLevelWeightSteps -> Int;   *)
(* weights are held in fixed point, One standing for the float 1.0.        *)
(***************************************************************************)
kMipLevelWeightSteps == 64
kMinPercentUniqueWeights == 25

One == kMipLevelWeightSteps
CurveIdx == 0..kMipLevelWeightSteps
NoCurve == << >>

\* `(weights.length * kMinPercentUniqueWeights * 0.01) | 0`
MinUniqueCount(weights) ==
  (Cardinality(DOMAIN weights) * kMinPercentUniqueWeights) \div 100

\* Smallest plateau of the probed family: three below the uniqueness threshold.
MinCap == ((kMipLevelWeightSteps + 1) * kMinPercentUniqueWeights) \div 100 - 3

\* What the probe reads back for one weight type: a ramp i/64 that saturates
\* at `cap`, with the first and last sample as the device returned them and
\* optionally one sample (dipAt) two steps below the ramp.
ProbedCurve(p) ==
  [i \in CurveIdx |->
     IF i = 0 THEN p.first
     ELSE IF i = kMipLevelWeightSteps THEN p.last
     ELSE IF i = p.dipAt THEN Min(i, p.cap) - 2
     ELSE Min(i, p.cap)]

CurveParams ==
  [first : {0, 1}, last : {One - 1, One},
   cap : (MinCap..MaxCap) \cup {kMipLevelWeightSteps}, dipAt : 0..MaxDipAt]

AllProbedCurves == {ProbedCurve(p) : p \in CurveParams}

\* The read-backs the concurrent calibration model lets a device return, as
\* <<sampleLevelWeights, gradWeights>>: both linear; a dip in the level curve;
\* a wrong first sample in the level curve; a wrong last sample in the grad curve.
LinearCurve == ProbedCurve([first |-> 0, last |-> One, cap |-> kMipLevelWeightSteps, dipAt |-> 0])

DeviceReadbacks ==
  {<<LinearCurve, LinearCurve>>,
   <<ProbedCurve([first |-> 0, last |-> One, cap |-> kMipLevelWeightSteps, dipAt |-> 2]), LinearCurve>>,
   <<ProbedCurve([first |-> 1, last |-> One, cap |-> kMipLevelWeightSteps, dipAt |-> 0]), LinearCurve>>,
   <<LinearCurve, ProbedCurve([first |-> 0, last |-> One - 1, cap |-> kMipLevelWeightSteps, dipAt |-> 0])>>}

\* validateWeights: "ok" when no assert fires, else the assert that throws.
validateWeights_NoTopCheck(weights) ==
  IF weights[0] # 0 THEN "weight 0 expected 0"
  ELSE IF Cardinality({weights[i] : i \in DOMAIN weights}) < MinUniqueCount(weights)
    THEN "expected at least ~25% unique weights"
  ELSE "ok"

validateWeights_NoUniqueCheck(weights) ==
  IF weights[0] # 0 THEN "weight 0 expected 0"
  ELSE IF weights[kMipLevelWeightSteps] # One THEN "top weight expected 1"
  ELSE "ok"

validateWeights(weights) ==
  IF weights[0] # 0 THEN "weight 0 expected 0"
  ELSE IF weights[kMipLevelWeightSteps] # One THEN "top weight expected 1"
  ELSE IF Cardinality({weights[i] : i \in DOMAIN weights}) < MinUniqueCount(weights)
    THEN "expected at least ~25% unique weights"
  ELSE "ok"

\* The tail of queryMipLevelMixWeightsForDevice: both curves are validated in
\* turn; the first failing assert is what the returned promise rejects with.
QueryOutcome(sampleLevelWeights, gradWeights) ==
  LET v1 == validateWeights(sampleLevelWeights)
      v2 == validateWeights(gradWeights)
  IN IF v1 # "ok" THEN [ok |-> FALSE, err |-> v1]
     ELSE IF v2 # "ok" THEN [ok |-> FALSE, err |-> v2]
     ELSE [ok |-> TRUE, err |-> "none"]

(***************************************************************************)
(* Spec: calibration on the cooperative thread                             *)
(***************************************************************************)
Devices == 1..NumDevices
Stages == {"compute", "fragment", "vertex"}
Callers == 1..MaxCallers

NoWeights == [sampleLevelWeights |-> NoCurve, gradWeights |-> NoCurve]
MipWeights(slw, gw) == [sampleLevelWeights |-> slw, gradWeights |-> gw]

\* a reaction job: what runs, for which promise, for which caller (0: none)
Job(type, p, c) == [type |-> type, p |-> p, c |-> c]

NewPromise(d, s) ==
  [dev |-> d, stage |-> s, state |-> "pending", value |-> NoWeights,
   err |-> "none", reactions |-> << >>]

\* WeakMap.get(device) ?? {} followed by WeakMap.set(device, record)
GetOrMakeStageRecord(map, d, empty) ==
  IF map[d].present THEN map[d].stages ELSE [s \in Stages |-> empty]

\* `if (!weightsP)`: is there a promise for this stage already
HasStagePromise_Never(stageWeightsP, s) == FALSE

\* a rejected promise counts as none, so the probe is started again
HasStagePromise_RetryRejected(stageWeightsP, s) ==
  stageWeightsP[s] # 0 /\ promises[stageWeightsP[s]].state # "rejected"

HasStagePromise(stageWeightsP, s) == stageWeightsP[s] # 0

\* `await p` of the caller's async function: a reaction on a pending promise,
\* a queued job on a settled one.
AwaitPromise(ps, q, p, job) ==
  IF ps[p].state = "pending"
    THEN [ps |-> [ps EXCEPT ![p].reactions = Append(@, job)], q |-> q]
    ELSE [ps |-> ps, q |-> Append(q, job)]

\* The then-clause of initMipLevelWeightsForDevice: record the weights.
RecordWeights_FreshRecord(map, d, s, weights) ==
  [map EXCEPT ![d] = [present |-> TRUE,
                      stages |-> [[x \in Stages |-> NoWeights] EXCEPT ![s] = weights]]]

RecordWeights(map, d, s, weights) ==
  [map EXCEPT ![d] = [present |-> TRUE,
                      stages |-> [GetOrMakeStageRecord(map, d, NoWeights) EXCEPT ![s] = weights]]]

\* initMipLevelWeightsForDevice(t, stage) up to its `await weightsP`.
initMipLevelWeightsForDevice(c, d, s) ==
  /\ callers[c].pc = "idle"
  /\ \A b \in Callers : b < c => callers[b].pc # "idle"   \* callers are numbered in arrival order
  /\ LET stageWeightsP == GetOrMakeStageRecord(s_deviceToMipLevelWeightsPromise, d, 0)
         fresh == ~HasStagePromise(stageWeightsP, s)
         pid == IF fresh THEN Len(promises) + 1 ELSE stageWeightsP[s]
         \* queryMipLevelMixWeightsForDevice runs to its mapAsync; the
         \* .then(record).catch(rethrow) chain is attached first
         ps1 == IF fresh
                  THEN Append(promises,
                         [NewPromise(d, s) EXCEPT !.reactions = <<Job("then", pid, 0)>>])
                  ELSE promises
         aw == AwaitPromise(ps1, microtasks, pid, Job("initResume", pid, c))
         how == IF fresh THEN "started"
                ELSE IF promises[pid].state = "pending" THEN "joinedPending"
                ELSE "joinedSettled"
     IN /\ promises' = aw.ps
        /\ microtasks' = aw.q
        /\ s_deviceToMipLevelWeightsPromise' =
             [s_deviceToMipLevelWeightsPromise EXCEPT
                ![d] = [present |-> TRUE,
                        stages |-> [stageWeightsP EXCEPT ![s] = pid]]]
        /\ callers' = [callers EXCEPT ![c] =
                         [@ EXCEPT !.pc = "awaiting", !.dev = d, !.stage = s, !.p = pid,
                                    !.how = how]]
  /\ UNCHANGED <<s_deviceToMipLevelWeights, unhandled, vq, rn, ck, sw>>

\* The probe's mapAsync resolves (a task: the microtask queue is empty) and
\* the rest of queryMipLevelMixWeightsForDevice is queued.
ProbeReadback(p) ==
  /\ p \in DOMAIN promises
  /\ promises[p].state = "pending"
  /\ microtasks = << >>
  /\ promises[p].err = "none"
  /\ promises' = [promises EXCEPT ![p].err = "mapped"]
  /\ microtasks' = Append(microtasks, Job("probeCont", p, 0))
  /\ UNCHANGED <<s_deviceToMipLevelWeightsPromise, s_deviceToMipLevelWeights,
                 callers, unhandled, vq, rn, ck, sw>>

\* Settling a promise queues its reactions in registration order.
SettlePromise(ps, q, p, outcome, weights) ==
  [ps |-> [ps EXCEPT ![p] = [@ EXCEPT !.state = IF outcome.ok THEN "fulfilled" ELSE "rejected",
                                      !.value = IF outcome.ok THEN weights ELSE NoWeights,
                                      !.err = outcome.err,
                                      !.reactions = << >>]],
   q |-> q \o ps[p].reactions]

\* queryMipLevelMixWeightsForDevice after `await resultBuffer.mapAsync`.
RunProbeCont(job) ==
  /\ job.type = "probeCont"
  /\ \E rb \in DeviceReadbacks :
       LET st == SettlePromise(promises, Tail(microtasks), job.p,
                               QueryOutcome(rb[1], rb[2]), MipWeights(rb[1], rb[2]))
       IN /\ promises' = st.ps
          /\ microtasks' = st.q
  /\ UNCHANGED <<s_deviceToMipLevelWeightsPromise, s_deviceToMipLevelWeights,
                 callers, unhandled, vq, rn, ck, sw>>

\* weightsP.then(weights => record): runs the handler when fulfilled; when
\* rejected the derived promise is rejected and its .catch reaction queued.
RunThen(job) ==
  /\ job.type = "then"
  /\ IF promises[job.p].state = "fulfilled"
       THEN /\ s_deviceToMipLevelWeights' =
                 RecordWeights(s_deviceToMipLevelWeights, promises[job.p].dev,
                               promises[job.p].stage, promises[job.p].value)
            /\ microtasks' = Tail(microtasks)
       ELSE /\ microtasks' = Append(Tail(microtasks), Job("catch", job.p, 0))
            /\ UNCHANGED s_deviceToMipLevelWeights
  /\ UNCHANGED <<promises, s_deviceToMipLevelWeightsPromise, callers, unhandled, vq, rn, ck, sw>>

\* .catch(e => { throw e; }): the promise it returns is rejected, unobserved.
RunCatch(job) ==
  /\ job.type = "catch"
  /\ unhandled' = unhandled \cup {job.p}
  /\ microtasks' = Tail(microtasks)
  /\ UNCHANGED <<promises, s_deviceToMipLevelWeightsPromise, s_deviceToMipLevelWeights,
                 callers, vq, rn, ck, sw>>

\* `return await weightsP` resumes: the async function's own promise settles
\* and the caller awaiting it is queued.
InitOutcome_Swallow(pr) == [pc |-> "initReturned", got |-> pr.value, err |-> "none"]

InitOutcome(pr) ==
  IF pr.state = "fulfilled"
    THEN [pc |-> "initReturned", got |-> pr.value, err |-> "none"]
    ELSE [pc |-> "initThrew", got |-> NoWeights, err |-> pr.err]

RunInitResume(job) ==
  /\ job.type = "initResume"
  /\ LET o == InitOutcome(promises[job.p])
     IN callers' = [callers EXCEPT ![job.c] =
                      [@ EXCEPT !.pc = o.pc, !.got = o.got, !.err = o.err]]
  /\ microtasks' = Append(Tail(microtasks), Job("callerResume", job.p, job.c))
  /\ UNCHANGED <<promises, s_deviceToMipLevelWeightsPromise, s_deviceToMipLevelWeights,
                 unhandled, vq, rn, ck, sw>>

\* The caller's `await initMipLevelWeightsForDevice(t, stage)` completes.
RunCallerResume(job) ==
  /\ job.type = "callerResume"
  /\ callers' = [callers EXCEPT ![job.c].pc =
                   IF callers[job.c].pc = "initReturned" THEN "returned" ELSE "threw"]
  /\ microtasks' = Tail(microtasks)
  /\ UNCHANGED <<promises, s_deviceToMipLevelWeightsPromise, s_deviceToMipLevelWeights,
                 unhandled, vq, rn, ck, sw>>

CallInit == \E c \in Callers, d \in Devices, s \in Stages : initMipLevelWeightsForDevice(c, d, s)
Readback == \E p \in DOMAIN promises : ProbeReadback(p)
ProbeCont == microtasks # << >> /\ RunProbeCont(Head(microtasks))
Then == microtasks # << >> /\ RunThen(Head(microtasks))
Catch == microtasks # << >> /\ RunCatch(Head(microtasks))
InitResume == microtasks # << >> /\ RunInitResume(Head(microtasks))
CallerResume == microtasks # << >> /\ RunCallerResume(Head(microtasks))

\* `how` remembers how the caller met the probe: it started it, joined it in
\* flight, or arrived after it settled.
IdleCaller ==
  [pc |-> "idle", dev |-> 0, stage |-> "none", p |-> 0, how |-> "none",
   got |-> NoWeights, err |-> "none"]

CalInit ==
  /\ promises = << >>
  /\ s_deviceToMipLevelWeightsPromise =
       [d \in Devices |-> [present |-> FALSE, stages |-> [s \in Stages |-> 0]]]
  /\ s_deviceToMipLevelWeights =
       [d \in Devices |-> [present |-> FALSE, stages |-> [s \in Stages |-> NoWeights]]]
  /\ microtasks = << >>
  /\ callers = [c \in Callers |-> IdleCaller]
  /\ unhandled = {}

VqIdle == [sampleLevelWeights |-> NoCurve, gradWeights |-> NoCurve, outcome |-> "idle", err |-> "none"]
RnIdle == [pc |-> "idle", calls |-> << >>, binned |-> << >>, view |-> << >>, out |-> << >>]
CkIdle ==
  [pc |-> "idle", format |-> "none", sampler |-> << >>, calls |-> << >>, results |-> << >>,
   callIdx |-> 1, order |-> << >>, verdicts |-> << >>, errs |-> << >>, ret |-> "none"]

SwIdle == [pc |-> "idle"]

Init == CalInit /\ vq = VqIdle /\ rn = RnIdle /\ ck = CkIdle /\ sw = SwIdle

Next ==
  \/ CallInit
  \/ Readback
  \/ ProbeCont
  \/ Then
  \/ Catch
  \/ InitResume
  \/ CallerResume

Spec == Init /\ [][Next]_vars

(***************************************************************************)
(* SpecValidate: the tail of queryMipLevelMixWeightsForDevice on every     *)
(* pair of curves of the probed family                                     *)
(***************************************************************************)
QueryValidate ==
  /\ vq.outcome = "probed"
  /\ LET o == QueryOutcome(vq.sampleLevelWeights, vq.gradWeights)
     IN vq' = [vq EXCEPT !.outcome = IF o.ok THEN "returned" ELSE "threw", !.err = o.err]
  /\ UNCHANGED <<calVars, rn, ck, sw>>

InitValidate ==
  /\ CalInit /\ rn = RnIdle /\ ck = CkIdle /\ sw = SwIdle
  /\ vq \in [sampleLevelWeights : AllProbedCurves, gradWeights : AllProbedCurves,
             outcome : {"probed"}, err : {"none"}]

NextValidate == QueryValidate

SpecValidate == InitValidate /\ [][NextValidate]_vars

(***************************************************************************)
(* SpecRun: createTextureCallsRunner and its run()                         *)
(* Sequences are 1-based here: call index i stands for callIdx i - 1 and   *)
(* slot x for result texel x - 1.                                          *)
(***************************************************************************)
kTextureCallArgNames ==
  <<"component", "coords", "derivativeMult", "arrayIndex", "bias", "sampleIndex",
    "mipLevel", "ddx", "ddy", "depthRef", "offset">>

\* An argument is a record [def, v]: def is FALSE for undefined, v is the
\* value as a vector (a scalar is a vector of length 1, which wgslTypeFor and
\* wgslExpr print alike).
Undef == [def |-> FALSE, v |-> << >>]
Arg(v) == [def |-> TRUE, v |-> v]

wgslTypeFor(data, type) ==
  IF Len(data) = 1 THEN <<type, "32">>
  ELSE IF Len(data) = 2 THEN <<"vec2", type>>
  ELSE <<"vec3", type>>

wgslExpr(data) == <<"expr", data>>

\* binKey: the builtin and, for every present argument in kTextureCallArgNames
\* order, its name with its constant value (offset, component) or its type.
binKey_TypesOnly(call) ==
  LET present == SelectSeq(kTextureCallArgNames, LAMBDA name : call.args[name].def)
  IN <<call.builtin,
       [k \in DOMAIN present |->
          <<present[k], wgslTypeFor(call.args[present[k]].v, call.coordType)>>]>>

binKey(call) ==
  LET present == SelectSeq(kTextureCallArgNames, LAMBDA name : call.args[name].def)
  IN <<call.builtin,
       [k \in DOMAIN present |->
          LET name == present[k]
          IN IF name = "offset" \/ name = "component"
               THEN <<name, wgslExpr(call.args[name].v)>>
               ELSE <<name, wgslTypeFor(call.args[name].v, call.coordType)>>]>>

\* binCalls: calls.forEach over callIdx i..n; keys[b] is the key that `map`
\* sends to bin index b.
RECURSIVE BinCallsFrom(_, _, _, _)
BinCallsFrom(calls, i, keys, bins) ==
  IF i > Len(calls) THEN bins
  ELSE LET key == binKey(calls[i])
           hit == {b \in DOMAIN keys : keys[b] = key}
       IN IF hit = {}
            THEN BinCallsFrom(calls, i + 1, Append(keys, key), Append(bins, <<i>>))
            ELSE LET binIdx == CHOOSE b \in hit : TRUE
                 IN BinCallsFrom(calls, i + 1, keys,
                                 [bins EXCEPT ![binIdx] = Append(@, i)])

binCalls(calls) == BinCallsFrom(calls, 1, << >>, << >>)

getCallArgType(call, argName) ==
  CASE argName \in {"coords", "derivativeMult"} -> call.coordType
    [] argName = "component" -> call.componentType
    [] argName = "mipLevel" -> call.levelType
    [] argName = "arrayIndex" -> call.arrayIndexType
    [] argName = "sampleIndex" -> call.sampleIndexType
    [] OTHER -> "f"

\* buildBinnedCalls: the expression comes from the bin's first call
\* (builtin, constant component and offset, names of the data fields), so do
\* the struct fields with their types; the data is one entry per call of the
\* bin, in bin order.  asserted: no call trips
\* assert(..., 'texture calls are not binned correctly').
buildBinnedCalls(binned) ==
  LET prototype == binned[1]
      fieldNames == SelectSeq(kTextureCallArgNames,
                      LAMBDA name : prototype.args[name].def
                                    /\ name # "offset" /\ name # "component")
  IN [expr |-> <<prototype.builtin, prototype.args["component"], prototype.args["offset"],
                 fieldNames>>,
      fields |-> [j \in DOMAIN fieldNames |->
                    <<fieldNames[j],
                      wgslTypeFor(prototype.args[fieldNames[j]].v,
                                  IF fieldNames[j] = "mipLevel" THEN prototype.levelType
                                  ELSE IF fieldNames[j] = "arrayIndex"
                                    THEN prototype.arrayIndexType
                                  ELSE IF fieldNames[j] = "sampleIndex"
                                    THEN prototype.sampleIndexType
                                  ELSE IF fieldNames[j] \in {"bias", "depthRef", "ddx", "ddy"}
                                    THEN "f"
                                  ELSE prototype.coordType)>>],
      asserted |-> \A k \in DOMAIN binned :
                     \A j \in DOMAIN kTextureCallArgNames :
                       prototype.args[kTextureCallArgNames[j]].def
                         = binned[k].args[kTextureCallArgNames[j]].def,
      data |-> [k \in DOMAIN binned |->
                  [name \in {fieldNames[j] : j \in DOMAIN fieldNames} |->
                     binned[k].args[name].v]]]

\* What the device returns for one evaluation of a bin's expression on one
\* entry of its data array.
DeviceEval(expr, args) == [expr |-> expr, args |-> args]
NoResult == [expr |-> << >>, args |-> << >>]

\* The generated getResult(idx): every bin's block runs, the block whose
\* [callCount, callCount + length) range holds idx selects its call.
RECURSIVE ShaderResultFrom(_, _, _, _, _, _)
ShaderResultFrom(calls, binned, binIdx, callCount, idx, result) ==
  IF binIdx > Len(binned) THEN result
  ELSE LET bin == binned[binIdx]
           b == buildBinnedCalls([k \in DOMAIN bin |-> calls[bin[k]]])
           is_active == idx > callCount /\ idx <= callCount + Len(bin)
       IN ShaderResultFrom(calls, binned, binIdx + 1, callCount + Len(bin), idx,
            IF is_active THEN DeviceEval(b.expr, b.data[idx - callCount]) ELSE result)

ShaderResult(calls, binned, idx) == ShaderResultFrom(calls, binned, 1, 0, idx, NoResult)

\* The read-back loop of run(): out[callIdx] = view.color({x: outIdx}).
RECURSIVE ReadBackFrom(_, _, _, _, _)
ReadBackFrom(binned, view, binIdx, outIdx, out) ==
  IF binIdx > Len(binned) THEN out
  ELSE LET bin == binned[binIdx]
           written == [callIdx \in 1..Len(view) |->
                         IF \E k \in DOMAIN bin : bin[k] = callIdx
                           THEN view[outIdx + CHOOSE k \in DOMAIN bin : bin[k] = callIdx]
                           ELSE out[callIdx]]
       IN ReadBackFrom(binned, view, binIdx + 1, outIdx + Len(bin), written)

ReadBackOut_ByCallIdx(binned, view) == view

ReadBackOut(binned, view) ==
  ReadBackFrom(binned, view, 1, 0, [i \in 1..Len(view) |-> NoResult])

\* The calls of a batch: textureGather calls that differ in coordinates, in
\* the constant component and in the constant offset.
GatherCall(coords, component, offset) ==
  [builtin |-> "textureGather", coordType |-> "f", levelType |-> "none",
   arrayIndexType |-> "none", sampleIndexType |-> "none", componentType |-> "u",
   args |-> [name \in {kTextureCallArgNames[j] : j \in DOMAIN kTextureCallArgNames} |->
               IF name = "coords" THEN Arg(coords)
               ELSE IF name = "component" THEN Arg(<<component>>)
               ELSE IF name = "offset" THEN Arg(offset)
               ELSE Undef]]

\* textureLoad calls on a 2d or a 1d texture, with the types of their
\* coordinates and of their level
LoadCall(coords, coordType, mipLevel, levelType) ==
  [builtin |-> "textureLoad", coordType |-> coordType, levelType |-> levelType,
   arrayIndexType |-> "none", sampleIndexType |-> "none", componentType |-> "none",
   args |-> [name \in {kTextureCallArgNames[j] : j \in DOMAIN kTextureCallArgNames} |->
               IF name = "coords" THEN Arg(coords)
               ELSE IF name = "mipLevel" THEN Arg(<<mipLevel>>)
               ELSE Undef]]

RunCallPool ==
  {GatherCall(c, k, o) : c \in {<<1, 1>>, <<3, 1>>}, k \in {0, 1}, o \in {<<0, 0>>, <<1, 0>>}}
  \cup {LoadCall(<<1, 1>>, ct, 0, lt) : ct \in {"i", "u"}, lt \in {"i", "u"}}
  \cup {LoadCall(<<1>>, "i", 1, "i")}

RunBatches == UNION {[1..n -> RunCallPool] : n \in 1..MaxRunCalls}

\* createTextureCallsRunner: bin the calls and build the program.
CreateRunner ==
  /\ rn.pc = "new"
  /\ rn' = [rn EXCEPT !.pc = "created", !.binned = binCalls(rn.calls)]
  /\ UNCHANGED <<calVars, vq, ck, sw>>

\* run(): one invocation per result slot is submitted and the result buffer
\* is filled by the device.
RunSubmit ==
  /\ rn.pc = "created"
  /\ rn' = [rn EXCEPT !.pc = "mapping",
                      !.view = [x \in 1..Len(rn.calls) |->
                                  ShaderResult(rn.calls, rn.binned, x)]]
  /\ UNCHANGED <<calVars, vq, ck, sw>>

\* run() after `await resultBuffer.mapAsync`: results are handed out per call.
RunReadBack ==
  /\ rn.pc = "mapping"
  /\ rn' = [rn EXCEPT !.pc = "done", !.out = ReadBackOut(rn.binned, rn.view)]
  /\ UNCHANGED <<calVars, vq, ck, sw>>

InitRun ==
  /\ CalInit /\ vq = VqIdle /\ ck = CkIdle /\ sw = SwIdle
  /\ rn \in [pc : {"new"}, calls : RunBatches, binned : {<< >>}, view : {<< >>}, out : {<< >>}]

NextRun ==
  \/ CreateRunner
  \/ RunSubmit
  \/ RunReadBack

SpecRun == InitRun /\ [][NextRun]_vars

(***************************************************************************)
(* SpecCheck: checkCallResults                                             *)
(* A component value k of a texture of format f stands for the number      *)
(* k / Den(f); the float 1 is Den(f).  Normalized (float) coordinates are  *)
(* held in eighths, integer coordinates in units.                          *)
(***************************************************************************)
kRGBAComponents == <<"R", "G", "B", "A">>
kRComponent == <<"R">>
RGBA(r, g, b, a) == [c \in {"R", "G", "B", "A"} |-> CASE c = "R" -> r [] c = "G" -> g [] c = "B" -> b [] OTHER -> a]

CheckFormats == {"rgba8unorm", "rgb10a2unorm", "depth16unorm"}

isDepthOrStencilTextureFormat(format) == format = "depth16unorm"

\* kTexelRepresentationInfo[format]: component order, and the encoding of a
\* component as an unsigned normalized integer of its channel's bit width.
componentOrder(format) ==
  IF isDepthOrStencilTextureFormat(format) THEN <<"Depth">> ELSE kRGBAComponents

Den(format) ==
  CASE format = "rgba8unorm" -> 255
    [] format = "rgb10a2unorm" -> 1023
    [] OTHER -> 65535

\* how many value steps make one step of the channel's encoding
StepsPerULP(format, component) ==
  IF format = "rgb10a2unorm" /\ component = "A" THEN 341 ELSE 1

\* rep.bitsToULPFromZero(rep.numberToBits(texel)), per component
ULPFromZero(format, texel) ==
  [c \in DOMAIN texel |->
     (2 * texel[c] + StepsPerULP(format, c)) \div (2 * StepsPerULP(format, c))]

SeqToSet(q) == {q[i] : i \in DOMAIN q}

\* `one` is the default alpha 1 in the unit of src: Den(format) for a value,
\* 1 for a ULP count
convertPerTexelComponentToResultFormat(src, format, one) ==
  [c \in {"R", "G", "B", "A"} |->
     IF isDepthOrStencilTextureFormat(format)
       THEN (IF c = "R" THEN src["Depth"] ELSE IF c = "A" THEN one ELSE 0)
       ELSE src[c]]

convertResultFormatToTexelViewFormat(src, format) ==
  [c \in SeqToSet(componentOrder(format)) |->
     IF c \in DOMAIN src THEN src[c] ELSE src["R"]]

zeroValuePerTexelComponent(components) == [c \in SeqToSet(components) |-> 0]

Abs(x) == IF x < 0 THEN -x ELSE x

\* a tolerance is the fraction num / den
getMaxFractionalDiffForTextureFormat(format) ==
  CASE format = "depth16unorm" -> [num |-> 3, den |-> 100]
    [] format = "rgba8unorm" -> [num |-> 7, den |-> 255]
    [] format = "rgb10a2unorm" -> [num |-> 13, den |-> 512]
    [] OTHER -> [num |-> 44, den |-> 1]

NoTolerance == [num |-> 0, den |-> 1]

\* absDiff > maxFractionalDiff, absDiff being in steps of 1 / Den(format)
ExceedsTolerance(absDiff, format, tol) == absDiff * tol.den > tol.num * Den(format)

\* the per-component test shared by texelsApproximatelyEqual and the report
ComponentBad_Either(g, e, gULP, eULP, format, tol) ==
  Abs(gULP - eULP) > 3 \/ ExceedsTolerance(Abs(g - e), format, tol)

ComponentBad(g, e, gULP, eULP, format, tol) ==
  Abs(gULP - eULP) > 3 /\ ExceedsTolerance(Abs(g - e), format, tol)

texelsApproximatelyEqual(gotRGBA, gotFormat, expectRGBA, expectedFormat, maxFractionalDiff) ==
  LET got == convertResultFormatToTexelViewFormat(gotRGBA, expectedFormat)
      expect == convertResultFormatToTexelViewFormat(expectRGBA, expectedFormat)
      gULP == convertPerTexelComponentToResultFormat(ULPFromZero(expectedFormat, got),
                                                     expectedFormat, 1)
      eULP == convertPerTexelComponentToResultFormat(ULPFromZero(expectedFormat, expect),
                                                     expectedFormat, 1)
      rgbaComponentsToCheck ==
        IF isDepthOrStencilTextureFormat(gotFormat) THEN kRComponent ELSE kRGBAComponents
  IN \A c \in SeqToSet(rgbaComponentsToCheck) :
       ~ComponentBad(gotRGBA[c], expectRGBA[c], gULP[c], eULP[c], expectedFormat,
                     maxFractionalDiff)

isBuiltinGather(builtin) == builtin \in {"textureGather", "textureGatherCompare"}

builtinNeedsMipLevelWeights_NorSampleLevel(builtin) ==
  builtin \notin {"textureLoad", "textureGather", "textureGatherCompare",
                  "textureSampleBaseClampToEdge", "textureSampleLevel"}

builtinNeedsMipLevelWeights(builtin) ==
  builtin \notin {"textureLoad", "textureGather", "textureGatherCompare",
                  "textureSampleBaseClampToEdge"}

\* getULPFromZeroForComponents: for a gather every output value is measured in
\* the channel of the gathered component.
getULPFromZeroForComponents(rgba, format, builtin, component) ==
  IF isBuiltinGather(builtin)
    THEN LET comp == kRGBAComponents[(IF component.def THEN component.v[1] ELSE 0) + 1]
         IN [c \in {"R", "G", "B", "A"} |->
               LET temp == [RGBA(0, 0, 0, Den(format)) EXCEPT ![comp] = rgba[c]]
                   texel == convertResultFormatToTexelViewFormat(temp, format)
               IN convertPerTexelComponentToResultFormat(
                    ULPFromZero(format, texel), format, 1)[comp]]
    ELSE convertPerTexelComponentToResultFormat(
           ULPFromZero(format, convertResultFormatToTexelViewFormat(rgba, format)), format, 1)

\* The software texture: 2d, 2 x 2 x 1, two mip levels, one sample.
kTexSize == <<2, 2, 1>>
kTexMipLevelCount == 2
kTexSampleCount == 1

\* virtualMipSize for a 2d texture
virtualMipSize(size, mipLevel) ==
  [i \in 1..3 |-> IF i = 3 THEN size[3]
                  ELSE IF mipLevel >= 2 THEN 1
                  ELSE IF mipLevel = 1 THEN Max(1, size[i] \div 2)
                  ELSE size[i]]

\* texels[mipLevel].color({x, y, z: 0, sampleIndex}) in texel view format
TexelColor(format, mipLevel, x, y) ==
  LET n == IF mipLevel = 0 THEN 2 * y + x + 1 ELSE 5
  IN CASE format = "depth16unorm" ->
            [c \in {"Depth"} |-> <<1000, 20000, 40000, 65535, 31634>>[n]]
       [] format = "rgb10a2unorm" ->
            <<RGBA(100, 200, 300, 341), RGBA(400, 500, 600, 682), RGBA(700, 800, 900, 1023),
              RGBA(50, 60, 70, 0), RGBA(312, 390, 467, 682)>>[n]
       [] OTHER ->
            <<RGBA(10, 20, 30, 40), RGBA(50, 60, 70, 80), RGBA(90, 100, 110, 120),
              RGBA(130, 140, 150, 160), RGBA(70, 80, 90, 100)>>[n]

clamp(v, min, max) == Min(Max(v, min), max)

\* clamp-to-edge folds like mirror-repeat
applyAddressModesToCoords_ClampFolds(addressMode, mipLevelSize, coord) ==
  [i \in DOMAIN coord |->
     LET v == coord[i]
         size == mipLevelSize[i]
         n == v \div size
     IN CASE addressMode[i] = "clamp-to-edge" -> clamp(size - 1 - v, 0, size - 1)
          [] addressMode[i] = "mirror-repeat" ->
               IF n % 2 # 0 THEN size - (v - n * size) - 1 ELSE v - n * size
          [] OTHER -> v - n * size]

\* repeat takes the remainder with the sign of v
applyAddressModesToCoords_TruncatedRemainder(addressMode, mipLevelSize, coord) ==
  [i \in DOMAIN coord |->
     LET v == coord[i]
         size == mipLevelSize[i]
         n == v \div size
     IN CASE addressMode[i] = "clamp-to-edge" -> clamp(v, 0, size - 1)
          [] addressMode[i] = "mirror-repeat" ->
               IF n % 2 # 0 THEN size - (v - n * size) - 1 ELSE v - n * size
          [] OTHER -> IF v < 0 THEN -((-v) % size) ELSE v % size]

\* mirror-repeat reflects the even periods instead of the odd ones
applyAddressModesToCoords_MirrorEven(addressMode, mipLevelSize, coord) ==
  [i \in DOMAIN coord |->
     LET v == coord[i]
         size == mipLevelSize[i]
         n == v \div size
     IN CASE addressMode[i] = "clamp-to-edge" -> clamp(v, 0, size - 1)
          [] addressMode[i] = "mirror-repeat" ->
               IF n % 2 = 0 THEN size - (v - n * size) - 1 ELSE v - n * size
          [] OTHER -> v - n * size]

applyAddressModesToCoords(addressMode, mipLevelSize, coord) ==
  [i \in DOMAIN coord |->
     LET v == coord[i]
         size == mipLevelSize[i]
         n == v \div size
     IN CASE addressMode[i] = "clamp-to-edge" -> clamp(v, 0, size - 1)
          [] addressMode[i] = "mirror-repeat" ->
               IF n % 2 # 0 THEN size - (v - n * size) - 1 ELSE v - n * size
          [] OTHER -> v - n * size]

\* a coordinate vector carries its unit: den = 1 (integer) or 8 (normalized)
isOutOfBoundsCall_NoSampleIndex(call) ==
  LET callMipLevel == call.args["mipLevel"]
      size == virtualMipSize(kTexSize, IF callMipLevel.def THEN callMipLevel.v[1] ELSE 0)
      coords == call.args["coords"].v
  IN IF callMipLevel.def /\ (callMipLevel.v[1] < 0 \/ callMipLevel.v[1] >= kTexMipLevelCount)
       THEN TRUE
     ELSE IF \E i \in DOMAIN coords : coords[i] < 0 \/ coords[i] >= size[i] * call.coordDen
       THEN TRUE
     ELSE IF call.args["arrayIndex"].def
             /\ (call.args["arrayIndex"].v[1] < 0 \/ call.args["arrayIndex"].v[1] >= kTexSize[3])
       THEN TRUE
     ELSE FALSE

isOutOfBoundsCall(call) ==
  LET callMipLevel == call.args["mipLevel"]
      size == virtualMipSize(kTexSize, IF callMipLevel.def THEN callMipLevel.v[1] ELSE 0)
      coords == call.args["coords"].v
  IN IF callMipLevel.def /\ (callMipLevel.v[1] < 0 \/ callMipLevel.v[1] >= kTexMipLevelCount)
       THEN TRUE
     ELSE IF \E i \in DOMAIN coords : coords[i] < 0 \/ coords[i] >= size[i] * call.coordDen
       THEN TRUE
     ELSE IF call.args["arrayIndex"].def
             /\ (call.args["arrayIndex"].v[1] < 0 \/ call.args["arrayIndex"].v[1] >= kTexSize[3])
       THEN TRUE
     ELSE IF call.args["sampleIndex"].def
             /\ (call.args["sampleIndex"].v[1] < 0
                 \/ call.args["sampleIndex"].v[1] >= kTexSampleCount)
       THEN TRUE
     ELSE FALSE

AllTexels(format) ==
  {convertPerTexelComponentToResultFormat(TexelColor(format, mipLevel, x, y), format,
                                          Den(format)) :
     <<mipLevel, x, y>> \in
       {l \in (0..(kTexMipLevelCount - 1)) \X (0..1) \X (0..1) :
          l[2] < virtualMipSize(kTexSize, l[1])[1] /\ l[3] < virtualMipSize(kTexSize, l[1])[2]}}

isValidOutOfBoundsValue(format, gotRGBA, maxFractionalDiff) ==
  IF isDepthOrStencilTextureFormat(format) /\ gotRGBA["R"] = 0 THEN TRUE
  ELSE IF ~isDepthOrStencilTextureFormat(format)
          /\ gotRGBA["R"] = 0 /\ gotRGBA["B"] = 0 /\ gotRGBA["G"] = 0
          /\ (gotRGBA["A"] = 0 \/ gotRGBA["A"] = Den(format))
    THEN TRUE
  ELSE \E rgba \in AllTexels(format) :
         texelsApproximatelyEqual(gotRGBA, format, rgba, format, maxFractionalDiff)

okBecauseOutOfBounds(format, call, gotRGBA, maxFractionalDiff) ==
  IF ~isOutOfBoundsCall(call) THEN FALSE
  ELSE isValidOutOfBoundsValue(format, gotRGBA, maxFractionalDiff)

isBuiltinComparison(builtin) ==
  builtin \in {"textureGatherCompare", "textureSampleCompare", "textureSampleCompareLevel"}

kSamplerFns(compare, ref, v) ==
  CASE compare = "never" -> FALSE
    [] compare = "less" -> ref < v
    [] compare = "equal" -> ref = v
    [] compare = "less-equal" -> ref <= v
    [] compare = "greater" -> ref > v
    [] compare = "not-equal" -> ref # v
    [] compare = "greater-equal" -> ref >= v
    [] compare = "always" -> TRUE

applyCompare_TexelFirst(call, sampler, components, src, one) ==
  IF isBuiltinComparison(call.builtin)
    THEN [c \in SeqToSet(components) |->
            IF kSamplerFns(sampler.compare, src[c], call.args["depthRef"].v[1])
              THEN one ELSE 0]
    ELSE src

\* applyCompare; one is the value 1 in the unit of src
applyCompare(call, sampler, components, src, one) ==
  IF isBuiltinComparison(call.builtin)
    THEN [c \in SeqToSet(components) |->
            IF kSamplerFns(sampler.compare, call.args["depthRef"].v[1], src[c])
              THEN one ELSE 0]
    ELSE src

linearSamples_TopRightFirst(p0, p1) == << <<p1[1], p0[2]>>, p1, <<p0[1], p1[2]>>, p0 >>

\* the four texels of the 'linear' footprint of a 2d texture, in push order
\* ("ordered to match textureGather"); p0 is the lower texel, p1 the higher
linearSamples(p0, p1) == << <<p0[1], p1[2]>>, p1, <<p1[1], p0[2]>>, p0 >>

\* softwareTextureReadMipLevel on the 2d texture, for textureLoad, the gathers
\* and the sampling builtins.  Values are in steps of the format (1.0 is
\* Den(format)); with a linear minFilter the weights are in 64ths and the
\* result is in steps of 1 / (64 * Den(format)).
softwareTextureReadMipLevel(call, format, sampler, mipLevel) ==
  LET mipLevelSize == virtualMipSize(kTexSize, mipLevel)
      addressMode == <<sampler.addressModeU, sampler.addressModeV>>
      load(at) == TexelColor(format, mipLevel, at[1], at[2])
      coords == call.args["coords"].v
      \* at = coords * mipLevelSize - 0.5 (+ offset), in eighths
      at8 == [i \in DOMAIN coords |->
                coords[i] * mipLevelSize[i] - 4
                + (IF call.args["offset"].def THEN 8 * call.args["offset"].v[i] ELSE 0)]
      p0 == [i \in DOMAIN at8 |-> at8[i] \div 8]
      p1 == [i \in DOMAIN p0 |-> p0[i] + 1]
      nearest == [i \in DOMAIN at8 |-> (at8[i] + 4) \div 8]
      postV(at) == applyCompare(call, sampler, componentOrder(format),
                                load(applyAddressModesToCoords(addressMode, mipLevelSize, at)),
                                Den(format))
      fetch(at) == convertPerTexelComponentToResultFormat(postV(at), format, Den(format))
      \* interpolation weights of p1 and p0, in eighths
      p1W == [i \in DOMAIN at8 |-> at8[i] - 8 * p0[i]]
      p0W == [i \in DOMAIN at8 |-> 8 - p1W[i]]
      weights == <<p0W[1] * p1W[2], p1W[1] * p1W[2], p1W[1] * p0W[2], p0W[1] * p0W[2]>>
      weighted == [c \in SeqToSet(componentOrder(format)) |->
                     postV(linearSamples(p0, p1)[1])[c] * weights[1]
                     + postV(linearSamples(p0, p1)[2])[c] * weights[2]
                     + postV(linearSamples(p0, p1)[3])[c] * weights[3]
                     + postV(linearSamples(p0, p1)[4])[c] * weights[4]]
  IN IF call.builtin = "textureLoad"
       THEN convertPerTexelComponentToResultFormat(
              IF isOutOfBoundsCall(call)
                THEN zeroValuePerTexelComponent(componentOrder(format))
                ELSE load(coords), format, Den(format))
     ELSE IF isBuiltinGather(call.builtin)
       THEN LET componentNdx == IF call.args["component"].def
                                  THEN call.args["component"].v[1] ELSE 0
            IN [c \in {"R", "G", "B", "A"} |->
                  LET i == CHOOSE j \in 1..4 : kRGBAComponents[j] = c
                  IN fetch(linearSamples(p0, p1)[i])[kRGBAComponents[componentNdx + 1]]]
     ELSE IF sampler.def /\ sampler.filter = "linear"
       THEN convertPerTexelComponentToResultFormat(weighted, format, 64 * Den(format))
     ELSE fetch(nearest)

\* softwareTextureRead -> softwareTextureReadGrad -> softwareTextureReadLevel
\* for calls with neither bias nor gradients and a nearest mipmap filter
softwareTextureRead(call, format, sampler) ==
  LET mipLevel == IF call.args["mipLevel"].def THEN call.args["mipLevel"].v[1] ELSE 0
  IN IF ~sampler.def
       THEN softwareTextureReadMipLevel(call, format, sampler, mipLevel)
       ELSE softwareTextureReadMipLevel(call, format, sampler,
              clamp(mipLevel, 0, kTexMipLevelCount - 1))

\* `!sampler &&` in front of okBecauseOutOfBounds
OutOfBoundsRuleApplies_Always(sampler) == TRUE

OutOfBoundsRuleApplies(sampler) == ~sampler.def

\* maxFractionalDiff, then callSpecificMaxFractionalDiff
CallTolerance(format, sampler, call) ==
  LET maxFractionalDiff ==
        IF sampler.def /\ sampler.filter = "linear"
          THEN getMaxFractionalDiffForTextureFormat(format) ELSE NoTolerance
      bias == call.args["bias"]
  IN IF bias.def /\ bias.v[1] >= 12
       THEN [maxFractionalDiff EXCEPT !.num = @ * (2 + bias.v[1] - 12)]
       ELSE maxFractionalDiff

\* One iteration of the loop of checkCallResults: what becomes of the call.
CallVerdict(format, sampler, call, gotRGBA) ==
  LET callSpecificMaxFractionalDiff == CallTolerance(format, sampler, call)
      expectRGBA == softwareTextureRead(call, format, sampler)
      gULP == getULPFromZeroForComponents(gotRGBA, format, call.builtin, call.args["component"])
      eULP == getULPFromZeroForComponents(expectRGBA, format, call.builtin,
                                          call.args["component"])
      rgbaComponentsToCheck ==
        IF isBuiltinGather(call.builtin) \/ ~isDepthOrStencilTextureFormat(format)
          THEN kRGBAComponents ELSE kRComponent
      bad == \E c \in SeqToSet(rgbaComponentsToCheck) :
               ComponentBad(gotRGBA[c], expectRGBA[c], gULP[c], eULP[c], format,
                            callSpecificMaxFractionalDiff)
  IN IF isDepthOrStencilTextureFormat(format) /\ isBuiltinGather(call.builtin)
        /\ call.args["component"].def /\ call.args["component"].v[1] > 0
       THEN "skipped"
     ELSE IF texelsApproximatelyEqual(gotRGBA, format, expectRGBA, format,
                                      callSpecificMaxFractionalDiff)
       THEN "equal"
     ELSE IF OutOfBoundsRuleApplies(sampler)
             /\ okBecauseOutOfBounds(format, call, gotRGBA, callSpecificMaxFractionalDiff)
       THEN "outOfBounds"
     ELSE IF bad THEN "bad"
     ELSE "passedOver"

\* `return errs.length > 0 ? new Error(...) : undefined`
CheckReturn_Throw(errs) == IF Len(errs) > 0 THEN "threw" ELSE "undefined"

CheckReturn(errs) == IF Len(errs) > 0 THEN "Error" ELSE "undefined"

\* the loop's `callIdx++` and its test `callIdx < calls.length`
NextIteration(callIdx, n) ==
  [pc |-> IF callIdx < n THEN "loop" ELSE "finish", callIdx |-> callIdx + 1]

\* After a bad call: `break`
AfterBad_KeepGoing(callIdx, n) == NextIteration(callIdx, n)

AfterBad(callIdx, n) == [pc |-> "finish", callIdx |-> callIdx]

\* checkCallResults up to the loop: the calibration is awaited when the first
\* call's builtin needs mip level weights.
CheckBegin ==
  /\ ck.pc = "start"
  /\ ck' = [ck EXCEPT !.pc = IF builtinNeedsMipLevelWeights(ck.calls[1].builtin)
                               THEN "awaitInit" ELSE "loop"]
  /\ UNCHANGED <<calVars, vq, rn, sw>>

\* `await initMipLevelWeightsForDevice(t, stage)` returns or throws
CheckInitDone ==
  /\ ck.pc = "awaitInit"
  /\ \E ok \in BOOLEAN :
       ck' = [ck EXCEPT !.pc = IF ok THEN "loop" ELSE "done",
                        !.ret = IF ok THEN "none" ELSE "threw"]
  /\ UNCHANGED <<calVars, vq, rn, sw>>

\* one iteration of `for (let callIdx = 0; ...)`
CheckCall ==
  /\ ck.pc = "loop"
  /\ LET callIdx == ck.callIdx
         n == Len(ck.calls)
         v == CallVerdict(ck.format, ck.sampler, ck.calls[callIdx], ck.results[callIdx])
         after == IF v = "bad" THEN AfterBad(callIdx, n) ELSE NextIteration(callIdx, n)
     IN /\ callIdx <= n
        /\ ck' = [ck EXCEPT
                    !.order = Append(@, callIdx),
                    !.verdicts = Append(@, v),
                    !.errs = IF v = "bad" THEN Append(@, callIdx) ELSE @,
                    !.pc = after.pc,
                    !.callIdx = after.callIdx]
  /\ UNCHANGED <<calVars, vq, rn, sw>>

\* the runners are destroyed and the result is returned
CheckFinish ==
  /\ ck.pc = "finish"
  /\ ck' = [ck EXCEPT !.pc = "done", !.ret = CheckReturn(ck.errs)]
  /\ UNCHANGED <<calVars, vq, rn, sw>>

\* The batches: one builtin per batch, with the sampler it takes.
CallArgs(coords, mipLevel, component, offset) ==
  [name \in SeqToSet(kTextureCallArgNames) |->
     CASE name = "coords" -> Arg(coords)
       [] name = "mipLevel" -> mipLevel
       [] name = "component" -> component
       [] name = "offset" -> offset
       [] OTHER -> Undef]

LoadCalls ==
  {[builtin |-> "textureLoad", coordType |-> "i", coordDen |-> 1,
    args |-> CallArgs(c[1], Arg(<<c[2]>>), Undef, Undef)] :
     c \in {<< <<1, 1>>, 0>>, << <<2, 0>>, 0>>, << <<-1, 1>>, 0>>, << <<1, 0>>, 1>>,
            << <<0, 0>>, 2>>}}

GatherCalls(format) ==
  {[builtin |-> "textureGather", coordType |-> "f", coordDen |-> 8,
    args |-> CallArgs(c, Undef, k, Undef)] :
     c \in {<<4, 4>>, <<-1, 4>>},
     k \in IF isDepthOrStencilTextureFormat(format) THEN {Undef, Arg(<<1>>)}
           ELSE {Arg(<<0>>), Arg(<<3>>)}}

SampleLevelCalls ==
  {[builtin |-> "textureSampleLevel", coordType |-> "f", coordDen |-> 8,
    args |-> CallArgs(c, Arg(<<l>>), Undef, Undef)] :
     c \in {<<2, 2>>, <<6, 2>>}, l \in {0, 1}}

NoSampler == [def |-> FALSE, filter |-> "nearest",
              addressModeU |-> "clamp-to-edge", addressModeV |-> "clamp-to-edge"]
Sampler(filter) == [NoSampler EXCEPT !.def = TRUE, !.filter = filter]

\* what the device may hand back for a call whose oracle value is e
DeviceValues(format, e) ==
  {e,
   RGBA(0, 0, 0, 0),
   RGBA(0, 0, 0, Den(format)),
   convertPerTexelComponentToResultFormat(TexelColor(format, 1, 0, 0), format, Den(format)),
   [e EXCEPT !["R"] = @ + 2],
   [e EXCEPT !["R"] = IF @ >= 41 THEN @ - 41 ELSE @ + 41]}

CheckConfigs ==
  {[format |-> f, sampler |-> NoSampler, pool |-> LoadCalls] : f \in CheckFormats}
  \cup {[format |-> f, sampler |-> Sampler(flt), pool |-> GatherCalls(f)] :
          f \in {"rgb10a2unorm", "depth16unorm"}, flt \in {"nearest", "linear"}}
  \cup {[format |-> "rgba8unorm", sampler |-> Sampler("nearest"), pool |-> SampleLevelCalls]}

\* a call of the pool with what the device hands back for it
CallsWithResults(cfg) ==
  UNION {{[call |-> c, result |-> g] :
            g \in DeviceValues(cfg.format, softwareTextureRead(c, cfg.format, cfg.sampler))} :
         c \in cfg.pool}

InitCheck ==
  /\ CalInit /\ vq = VqIdle /\ rn = RnIdle /\ sw = SwIdle
  /\ \E cfg \in CheckConfigs, n \in 1..MaxCheckCalls :
       \E batch \in [1..n -> CallsWithResults(cfg)] :
         ck = [pc |-> "start", format |-> cfg.format, sampler |-> cfg.sampler,
               calls |-> [i \in 1..n |-> batch[i].call],
               results |-> [i \in 1..n |-> batch[i].result], callIdx |-> 1,
               order |-> << >>, verdicts |-> << >>, errs |-> << >>, ret |-> "none"]

NextCheck ==
  \/ CheckBegin
  \/ CheckInitDone
  \/ CheckCall
  \/ CheckFinish

SpecCheck == InitCheck /\ [][NextCheck]_vars

(***************************************************************************)
(* Claims about the calibration                                            *)
(***************************************************************************)
ProbesFor(d, s) == {p \in DOMAIN promises : promises[p].dev = d /\ promises[p].stage = s}

CachedWeights(d, s) ==
  IF s_deviceToMipLevelWeights[d].present
    THEN s_deviceToMipLevelWeights[d].stages[s] ELSE NoWeights

\* C1: whatever the interleaving of callers of one (device, stage), the probe
\* is started at most once for it, every caller waits on that probe, and every
\* caller that completes has received the weights that probe produced.
C1_SingleSharedProbe ==
  /\ \A d \in Devices, s \in Stages : Cardinality(ProbesFor(d, s)) <= 1
  /\ \A c \in Callers : callers[c].pc # "idle" =>
       /\ callers[c].p \in ProbesFor(callers[c].dev, callers[c].stage)
       /\ callers[c].pc \in {"initReturned", "returned"} =>
            /\ promises[callers[c].p].state = "fulfilled"
            /\ callers[c].got = promises[callers[c].p].value
            /\ callers[c].got # NoWeights

\* three callers of one stage: the one that started the probe, one that joined
\* it in flight and one that arrived after it resolved, all served by one probe
C1_Witness ==
  \E a, b, c \in Callers :
    /\ callers[a].how = "started" /\ callers[b].how = "joinedPending"
    /\ callers[c].how = "joinedSettled"
    /\ callers[a].p = callers[b].p /\ callers[b].p = callers[c].p
    /\ \A x \in {a, b, c} : callers[x].pc = "returned"
    /\ callers[a].got = callers[c].got /\ callers[a].got = callers[b].got

\* C2: when the probe of a (device, stage) fails validation no caller waiting
\* on it completes normally, once the reactions have run each of them has had
\* the probe's error thrown to it, and nothing is recorded for that stage.
C2_FailurePropagates ==
  \A c \in Callers :
    (callers[c].pc # "idle" /\ promises[callers[c].p].state = "rejected") =>
      /\ callers[c].pc \in {"awaiting", "initThrew", "threw"}
      /\ microtasks = << >> =>
           (callers[c].pc = "threw" /\ callers[c].err = promises[callers[c].p].err
            /\ callers[c].err # "none")
      /\ CachedWeights(callers[c].dev, callers[c].stage) = NoWeights

C2_Witness ==
  \E a, b \in Callers :
    /\ a # b /\ callers[a].p = callers[b].p
    /\ callers[a].pc = "threw" /\ callers[b].pc = "threw"
    /\ callers[a].how = "started" /\ callers[b].how = "joinedPending"
    /\ promises[callers[a].p].state = "rejected"
    /\ CachedWeights(callers[a].dev, callers[a].stage) = NoWeights

\* C3: a caller whose await of initMipLevelWeightsForDevice has completed
\* successfully (already when the function itself resumes) finds the weights of
\* its (device, stage) in the synchronous cache, however it met the probe.
C3_CachedBeforeResume ==
  \A c \in Callers : callers[c].pc \in {"initReturned", "returned"} =>
    /\ s_deviceToMipLevelWeights[callers[c].dev].present
    /\ s_deviceToMipLevelWeights[callers[c].dev].stages[callers[c].stage] = callers[c].got
    /\ callers[c].got # NoWeights

\* a late caller resumes inside the function while the starter has not yet
\* been resumed by its own await, and two stages of one device are cached
C3_Witness ==
  \E a, b \in Callers :
    /\ callers[a].how = "joinedSettled" /\ callers[a].pc = "initReturned"
    /\ callers[b].pc = "returned" /\ callers[b].dev = callers[a].dev
    /\ callers[b].stage # callers[a].stage
    /\ CachedWeights(callers[a].dev, callers[a].stage) = callers[a].got
    /\ CachedWeights(callers[b].dev, callers[b].stage) = callers[b].got

(***************************************************************************)
(* Claims about validateWeights                                            *)
(***************************************************************************)
Monotonic(w) == \A i \in 0..(kMipLevelWeightSteps - 1) : w[i] <= w[i + 1]
DistinctCount(w) == Cardinality({w[i] : i \in DOMAIN w})
VqCurves == {vq.sampleLevelWeights, vq.gradWeights}

\* C4: calibration succeeds only if each probed 65-sample curve is monotonic
\* non-decreasing.
C4_SucceedsOnlyIfMonotonic ==
  vq.outcome = "returned" => \A w \in VqCurves : Monotonic(w)

\* C5: calibration succeeds only if both curves are exactly 0 at index 0 and
\* exactly 1 at index 64; any other first or last value makes it throw.
C5_Endpoints ==
  /\ vq.outcome = "returned" =>
       \A w \in VqCurves : w[0] = 0 /\ w[kMipLevelWeightSteps] = One
  /\ (vq.outcome # "probed" /\ \E w \in VqCurves : w[0] # 0 \/ w[kMipLevelWeightSteps] # One)
       => (vq.outcome = "threw" /\ vq.err # "none")

C5_Witness ==
  /\ vq.outcome = "threw" /\ vq.err = "top weight expected 1"
  /\ vq.sampleLevelWeights[0] = 0 /\ vq.sampleLevelWeights[kMipLevelWeightSteps] = One
  /\ vq.gradWeights[0] = 0 /\ vq.gradWeights[kMipLevelWeightSteps] = One - 1

\* C6 as stated: calibration succeeds only if distinct values x 100 >= 25 x 65.
C6_AtLeastQuarterDistinct ==
  vq.outcome = "returned" =>
    \A w \in VqCurves :
      DistinctCount(w) * 100 >= kMinPercentUniqueWeights * (kMipLevelWeightSteps + 1)

\* C6 amended: calibration succeeds only if each curve has at least
\* floor(65 x 25 / 100) = 16 distinct values; a curve with fewer is rejected.
C6_AtLeastFloorQuarterDistinct ==
  /\ vq.outcome = "returned" =>
       \A w \in VqCurves :
         DistinctCount(w) * 100 > kMinPercentUniqueWeights * (kMipLevelWeightSteps + 1) - 100
  /\ (vq.outcome # "probed" /\ \E w \in VqCurves : DistinctCount(w) < 16)
       => vq.outcome = "threw"

C6_Witness ==
  /\ vq.outcome = "threw" /\ vq.err = "expected at least ~25% unique weights"
  /\ DistinctCount(vq.sampleLevelWeights) = 15
  /\ DistinctCount(vq.gradWeights) = kMipLevelWeightSteps + 1

(***************************************************************************)
(* Claims about the runner                                                 *)
(***************************************************************************)
RECURSIVE Flatten(_)
Flatten(seqs) == IF seqs = << >> THEN << >> ELSE Head(seqs) \o Flatten(Tail(seqs))

\* C7: the array run() returns has one entry per original call and entry i is
\* the device result of calls[i]; every call index is in exactly one bin, and
\* the slot a call is evaluated in is the slot read back into out[callIdx].
C7_OneResultPerCallInOrder ==
  /\ rn.pc \in {"created", "mapping", "done"} =>
       LET flat == Flatten(rn.binned)
       IN /\ Len(flat) = Len(rn.calls)
          /\ \A i \in DOMAIN rn.calls :
               Cardinality({x \in DOMAIN flat : flat[x] = i}) = 1
  /\ rn.pc = "done" =>
       /\ DOMAIN rn.out = DOMAIN rn.calls
       /\ \A i \in DOMAIN rn.calls :
            rn.out[i] = DeviceEval(buildBinnedCalls(<<rn.calls[i]>>).expr,
                                   buildBinnedCalls(<<rn.calls[i]>>).data[1])

\* a finished run whose bins reorder the calls: the first and third call share
\* a bin, the second sits in another, so slot 2 holds the third call's result
C7_Witness ==
  /\ rn.pc = "done" /\ Len(rn.calls) >= 3
  /\ rn.binned[1] = <<1, 3>> /\ rn.binned[2] = <<2>>
  /\ rn.view[2] = rn.out[3] /\ rn.view[2] # rn.out[2]


(***************************************************************************)
(* Claims about checkCallResults (SpecCheck)                               *)
(***************************************************************************)
CkVerdictOf(i) == CallVerdict(ck.format, ck.sampler, ck.calls[i], ck.results[i])

\* C8: the calls are evaluated in increasing call-index order, and once a call
\* is found to be a mismatch only that call is reported and no later call is
\* evaluated, so the reported call is the lowest-index mismatching call.
C8_FirstMismatchOnly ==
  ck.pc \in {"loop", "finish", "done"} =>
    /\ ck.order = [i \in 1..Len(ck.order) |-> i]
    /\ Len(ck.order) <= Len(ck.calls)
    /\ Len(ck.errs) <= 1
    /\ Len(ck.errs) = 1 =>
         /\ ck.errs[1] = Len(ck.order)
         /\ CkVerdictOf(ck.errs[1]) = "bad"
         /\ \A i \in 1..(ck.errs[1] - 1) : CkVerdictOf(i) # "bad"
    /\ (ck.pc \in {"finish", "done"} /\ ck.ret # "threw" /\ Len(ck.errs) = 0) =>
         /\ Len(ck.order) = Len(ck.calls)
         /\ \A i \in 1..Len(ck.calls) : CkVerdictOf(i) # "bad"

\* the first call is reported although the second one mismatches as well
C8_Witness ==
  /\ ck.pc = "done"
  /\ Len(ck.calls) = 2
  /\ ck.errs = <<1>>
  /\ ck.order = <<1>>
  /\ CkVerdictOf(2) = "bad"

C10_FailsNormalComparison(i) ==
  ~texelsApproximatelyEqual(ck.results[i], ck.format,
                            softwareTextureRead(ck.calls[i], ck.format, ck.sampler),
                            ck.format, CallTolerance(ck.format, ck.sampler, ck.calls[i]))

\* a coordinate outside [0, size) of the call's mip level, or a mip level,
\* array index or sample index outside its range
C10_OutOfBounds(call) ==
  LET a == call.args
      level == IF a["mipLevel"].def THEN a["mipLevel"].v[1] ELSE 0
  IN \/ a["mipLevel"].def /\ level \notin 0..(kTexMipLevelCount - 1)
     \/ \E i \in DOMAIN a["coords"].v :
          ~(0 <= a["coords"].v[i]
            /\ a["coords"].v[i] < virtualMipSize(kTexSize, level)[i] * call.coordDen)
     \/ a["arrayIndex"].def /\ a["arrayIndex"].v[1] \notin 0..(kTexSize[3] - 1)
     \/ a["sampleIndex"].def /\ a["sampleIndex"].v[1] \notin 0..(kTexSampleCount - 1)

\* the zero sentinel, or approximately some texel of some mip level
C10_Plausible(i) ==
  LET got == ck.results[i]
      sentinel == IF isDepthOrStencilTextureFormat(ck.format)
                    THEN got["R"] = 0
                    ELSE got \in {RGBA(0, 0, 0, 0), RGBA(0, 0, 0, Den(ck.format))}
  IN \/ sentinel
     \/ \E rgba \in AllTexels(ck.format) :
          texelsApproximatelyEqual(got, ck.format, rgba, ck.format,
                                   CallTolerance(ck.format, ck.sampler, ck.calls[i]))

C10_AllThree(i) ==
  /\ ~ck.sampler.def
  /\ C10_OutOfBounds(ck.calls[i])
  /\ C10_Plausible(i)

\* a gather call none of whose components is both more than 3 ULP and more
\* than the tolerance away, ULPs counted in the gathered component's channel
C10_GatherWithinChannelULP(i) ==
  LET call == ck.calls[i]
      e == softwareTextureRead(call, ck.format, ck.sampler)
      g == ck.results[i]
      gULP == getULPFromZeroForComponents(g, ck.format, call.builtin, call.args["component"])
      eULP == getULPFromZeroForComponents(e, ck.format, call.builtin, call.args["component"])
  IN /\ isBuiltinGather(call.builtin)
     /\ \A c \in {"R", "G", "B", "A"} :
          ~ComponentBad(g[c], e[c], gULP[c], eULP[c], ck.format,
                        CallTolerance(ck.format, ck.sampler, call))

C10_Compared(i) == ck.verdicts[i] # "skipped" /\ C10_FailsNormalComparison(i)

\* C10 (as stated): a value failing the normal comparison is accepted by the
\* out-of-bounds rule iff no sampler is in use, the call is out of bounds and
\* the value is plausible; in every other case the call is reported.
C10_AcceptedIffElseReported ==
  \A i \in DOMAIN ck.verdicts :
    C10_Compared(i) =>
      /\ ck.verdicts[i] = "outOfBounds" <=> C10_AllThree(i)
      /\ ~C10_AllThree(i) => ck.verdicts[i] = "bad"

\* C10 (amended): as above, except that a gather call is reported only if
\* some component is more than 3 ULP and more than the tolerance away with
\* ULPs counted in the gathered component's channel; otherwise it passes.
C10_AcceptedIffElseReportedUnlessGather ==
  \A i \in DOMAIN ck.verdicts :
    C10_Compared(i) =>
      /\ ck.verdicts[i] = "outOfBounds" <=> C10_AllThree(i)
      /\ ~C10_AllThree(i) =>
           IF C10_GatherWithinChannelULP(i)
             THEN ck.verdicts[i] = "passedOver"
             ELSE ck.verdicts[i] = "bad"

\* an out-of-bounds load accepted for returning a texel of the texture, and an
\* out-of-bounds load reported for an implausible value
C10_Witness ==
  /\ ck.pc = "done"
  /\ Len(ck.verdicts) = 2
  /\ ck.verdicts[1] = "outOfBounds"
  /\ C10_FailsNormalComparison(1)
  /\ ck.results[1]["R"] # 0
  /\ ck.verdicts[2] = "bad"
  /\ C10_OutOfBounds(ck.calls[2])
  /\ ~ck.sampler.def


(***************************************************************************)
(* SpecLoad: one textureLoad read by the oracle, no sampler                *)
(***************************************************************************)
OptionalIndex(range) == {Undef} \cup {Arg(<<k>>) : k \in range}

LoadCallSpace ==
  {[builtin |-> "textureLoad", coordType |-> "i", coordDen |-> 1,
    args |-> [CallArgs(<<x, y>>, l, Undef, Undef) EXCEPT !["arrayIndex"] = a,
                                                         !["sampleIndex"] = n]] :
     x \in -1..(MaxLoadIndex + 1), y \in -1..(MaxLoadIndex + 1),
     l \in OptionalIndex(-1..(MaxLoadIndex + 1)),
     a \in OptionalIndex(-1..MaxLoadIndex), n \in OptionalIndex(-1..MaxLoadIndex)}

\* the arguments load() is called with by the textureLoad case
TextureLoadReads(call) ==
  IF isOutOfBoundsCall(call) THEN {}
  ELSE {<<IF call.args["mipLevel"].def THEN call.args["mipLevel"].v[1] ELSE 0,
          call.args["coords"].v>>}

\* softwareTextureRead of a textureLoad call
LoadRead ==
  /\ sw.pc = "call"
  /\ sw' = [sw EXCEPT !.pc = "done",
                      !.oob = isOutOfBoundsCall(sw.call),
                      !.reads = TextureLoadReads(sw.call),
                      !.out = softwareTextureRead(sw.call, sw.format, NoSampler)]
  /\ UNCHANGED <<calVars, vq, rn, ck>>

InitLoad ==
  /\ CalInit /\ vq = VqIdle /\ rn = RnIdle /\ ck = CkIdle
  /\ \E call \in LoadCallSpace, format \in CheckFormats :
       sw = [pc |-> "call", call |-> call, format |-> format, oob |-> FALSE,
             reads |-> {}, out |-> << >>]

NextLoad == LoadRead

SpecLoad == InitLoad /\ [][NextLoad]_vars

\* C11: a texel load is classified out of bounds iff a coordinate is outside
\* [0, size) of the addressed mip level, or the array index, sample index or
\* mip level is outside its range; an out-of-bounds load is expected to give
\* zero in every component of the format and reads no texel.
C11_OutOfBoundsIffAndZero ==
  sw.pc = "done" =>
    /\ sw.oob <=> C10_OutOfBounds(sw.call)
    /\ C10_OutOfBounds(sw.call) =>
         /\ sw.reads = {}
         /\ \A c \in SeqToSet(componentOrder(sw.format)) :
              convertResultFormatToTexelViewFormat(sw.out, sw.format)[c] = 0
    /\ ~C10_OutOfBounds(sw.call) =>
         /\ Cardinality(sw.reads) = 1
         /\ sw.out = convertPerTexelComponentToResultFormat(
                       TexelColor(sw.format, IF sw.call.args["mipLevel"].def
                                               THEN sw.call.args["mipLevel"].v[1] ELSE 0,
                                  sw.call.args["coords"].v[1], sw.call.args["coords"].v[2]),
                       sw.format, Den(sw.format))

\* a load out of bounds only by its sample index
C11_Witness ==
  /\ sw.pc = "done"
  /\ sw.oob
  /\ sw.reads = {}
  /\ sw.call.args["sampleIndex"].def /\ sw.call.args["sampleIndex"].v[1] = 1
  /\ sw.call.args["coords"].v = <<1, 1>>
  /\ sw.call.args["mipLevel"] = Arg(<<0>>)
  /\ sw.call.args["arrayIndex"] = Arg(<<0>>)


(***************************************************************************)
(* SpecApprox: texelsApproximatelyEqual on one pair of results             *)
(***************************************************************************)
ApproxExpected(format) ==
  {convertPerTexelComponentToResultFormat(TexelColor(format, l[1], l[2], 0), format,
                                          Den(format)) : l \in {<<0, 0>>, <<1, 0>>}}

\* the device's value: the expected one moved in one component
ApproxDeltas == (0..MaxDelta) \cup {41}

ApproxGot(e) ==
  {[e EXCEPT ![c] = @ + d] : c \in {"R", "G", "B", "A"}, d \in ApproxDeltas}
  \cup {[e EXCEPT ![c] = @ - d] :
          <<c, d>> \in {q \in {"R", "G", "B", "A"} \X ApproxDeltas : e[q[1]] >= q[2]}}

ApproxCompare ==
  /\ sw.pc = "call"
  /\ sw' = [sw EXCEPT !.pc = "done",
                      !.equal = texelsApproximatelyEqual(sw.got, sw.format, sw.expect,
                                                         sw.format, sw.tol)]
  /\ UNCHANGED <<calVars, vq, rn, ck>>

InitApprox ==
  /\ CalInit /\ vq = VqIdle /\ rn = RnIdle /\ ck = CkIdle
  /\ \E format \in CheckFormats :
       \E e \in ApproxExpected(format),
          tol \in {NoTolerance, getMaxFractionalDiffForTextureFormat(format)} :
         \E g \in ApproxGot(e) :
           sw = [pc |-> "call", format |-> format, got |-> g, expect |-> e, tol |-> tol,
                 equal |-> FALSE]

NextApprox == ApproxCompare

SpecApprox == InitApprox /\ [][NextApprox]_vars

\* distance of two values of a component, counted in steps of its encoding
C12_ULPDistance(format, c, g, e) ==
  LET view == IF isDepthOrStencilTextureFormat(format) THEN "Depth" ELSE c
      u(v) == (2 * v + StepsPerULP(format, view)) \div (2 * StepsPerULP(format, view))
  IN Abs(u(g) - u(e))

C12_Checked(format) == IF isDepthOrStencilTextureFormat(format) THEN {"R"} ELSE {"R", "G", "B", "A"}

\* C12: the pair is accepted iff every checked component is within the
\* fractional tolerance or within 3 ULP; one component over both limits makes
\* the pair unequal.
C12_EqualIffWithinEither ==
  sw.pc = "done" =>
    (sw.equal <=>
       \A c \in C12_Checked(sw.format) :
         \/ Abs(sw.got[c] - sw.expect[c]) * sw.tol.den <= sw.tol.num * Den(sw.format)
         \/ C12_ULPDistance(sw.format, c, sw.got[c], sw.expect[c]) <= 3)

\* more than 3 ULP away yet inside the tolerance: accepted
C12_Witness ==
  /\ sw.pc = "done"
  /\ sw.equal
  /\ sw.format = "rgba8unorm"
  /\ Abs(sw.got["G"] - sw.expect["G"]) = 5
  /\ sw.tol # NoTolerance


(***************************************************************************)
(* Cube maps.  A cube coordinate is an integer direction <<x, y, z>>:      *)
(* normalize() scales by a positive length, which changes no comparison    *)
(* below and cancels in every quotient.  A normalized texture coordinate   *)
(* is a triple of fractions n[i] / d[i].                                   *)
(***************************************************************************)
kFaceUVMatrices ==
  << <<0, 0, -2, 0, -2, 0, 1, 1, 1>>,     \* pos-x
     <<0, 0, 2, 0, -2, 0, -1, 1, -1>>,    \* neg-x
     <<2, 0, 0, 0, 0, 2, -1, 1, -1>>,     \* pos-y
     <<2, 0, 0, 0, 0, -2, -1, -1, 1>>,    \* neg-y
     <<2, 0, 0, 0, -2, 0, -1, 1, 1>>,     \* pos-z
     <<-2, 0, 0, 0, -2, 0, 1, 1, -1>> >>  \* neg-z

transformMat3(v, m) ==
  <<v[1] * m[1] + v[2] * m[4] + v[3] * m[7],
    v[1] * m[2] + v[2] * m[5] + v[3] * m[8],
    v[1] * m[3] + v[2] * m[6] + v[3] * m[9]>>

convertCubeCoordToNormalized3DTextureCoord(r) ==
  LET absR == [i \in 1..3 |-> Abs(r[i])]
      xMajor == absR[1] > absR[2] /\ absR[1] > absR[3]
      yMajor == ~xMajor /\ absR[2] > absR[3]
      negX == r[1] < 0
      negY == r[2] < 0
      negZ == r[3] < 0
      uvw == IF xMajor THEN <<IF negX THEN r[3] ELSE -r[3], -r[2], absR[1]>>
             ELSE IF yMajor THEN <<r[1], IF negY THEN -r[3] ELSE r[3], absR[2]>>
             ELSE <<IF negZ THEN -r[1] ELSE r[1], -r[2], absR[3]>>
      layer == IF xMajor THEN (IF negX THEN 1 ELSE 0)
               ELSE IF yMajor THEN 2 + (IF negY THEN 1 ELSE 0)
               ELSE 4 + (IF negZ THEN 1 ELSE 0)
  IN \* (uvw[0] / uvw[2] + 1) * 0.5, (uvw[1] / uvw[2] + 1) * 0.5, (layer + 0.5) / 6
     [n |-> <<uvw[1] + uvw[3], uvw[2] + uvw[3], 2 * layer + 1>>,
      d |-> <<2 * uvw[3], 2 * uvw[3], 12>>]

convertNormalized3DTexCoordToCubeCoord(uvLayer) ==
  LET face == Min(5, (uvLayer.n[3] * 6) \div uvLayer.d[3])
  IN \* [u, v, 1] scaled by d[1] * d[2]
     transformMat3(<<uvLayer.n[1] * uvLayer.d[2], uvLayer.n[2] * uvLayer.d[1],
                     uvLayer.d[1] * uvLayer.d[2]>>, kFaceUVMatrices[face + 1])

\* u < 0.5 and u >= textureSize - 0.5, for u = coords[i] * textureSize
BelowHalf(coords, i, textureSize) == 2 * coords.n[i] * textureSize < coords.d[i]
AtOrAboveSizeLessHalf(coords, i, textureSize) ==
  2 * coords.n[i] * textureSize >= (2 * textureSize - 1) * coords.d[i]

getUnusedCubeCornerSampleIndex_LowUOnly(textureSize, coords) ==
  IF BelowHalf(coords, 2, textureSize)
    THEN (IF BelowHalf(coords, 1, textureSize) THEN 0 ELSE -1)
  ELSE IF AtOrAboveSizeLessHalf(coords, 2, textureSize)
    THEN (IF BelowHalf(coords, 1, textureSize) THEN 2 ELSE -1)
  ELSE -1

getUnusedCubeCornerSampleIndex(textureSize, coords) ==
  IF BelowHalf(coords, 2, textureSize)
    THEN (IF BelowHalf(coords, 1, textureSize) THEN 0
          ELSE IF AtOrAboveSizeLessHalf(coords, 1, textureSize) THEN 1 ELSE -1)
  ELSE IF AtOrAboveSizeLessHalf(coords, 2, textureSize)
    THEN (IF BelowHalf(coords, 1, textureSize) THEN 2
          ELSE IF AtOrAboveSizeLessHalf(coords, 1, textureSize) THEN 3 ELSE -1)
  ELSE -1

kCubeBaseSize == 4
CubeMipSize(mipLevel) == Max(1, kCubeBaseSize \div (2 ^ mipLevel))

\* softwareTextureReadMipLevel on a cube view: the sample points it builds and
\* whether it ends in unreachable('corners of cubemaps are not testable')
CubeReadMipLevel(builtin, minFilter, cubeCoord, mipLevel) ==
  LET size == CubeMipSize(mipLevel)
      coords == convertCubeCoordToNormalized3DTextureCoord(cubeCoord)
      textureSizeForCube == <<size, size, 6>>
      filter == IF isBuiltinGather(builtin) THEN "linear" ELSE minFilter
      \* floor(coords * size - 0.5) and round(coords * size - 0.5)
      p0 == [i \in 1..3 |->
               (2 * coords.n[i] * textureSizeForCube[i] - coords.d[i]) \div (2 * coords.d[i])]
      p1 == [i \in 1..3 |-> p0[i] + (IF i = 3 THEN 0 ELSE 1)]
      p == [i \in 1..3 |-> (coords.n[i] * textureSizeForCube[i]) \div coords.d[i]]
  IN IF filter = "linear"
       THEN [samples |-> << <<p0[1], p1[2], p0[3]>>, p1, <<p1[1], p0[2], p0[3]>>, p0 >>,
             raised |-> getUnusedCubeCornerSampleIndex(size, coords) >= 0]
       ELSE [samples |-> <<p>>, raised |-> FALSE]

(***************************************************************************)
(* SpecCubeRead: one single-level read of a cube view                      *)
(***************************************************************************)
\* face positions in quarter texels of the base level
CubeGrid == {1, 2, 3, 8, 13, 14, 15}

CubeDirections ==
  {transformMat3(<<a, b, 4 * kCubeBaseSize>>, kFaceUVMatrices[f]) :
     a \in CubeGrid, b \in CubeGrid, f \in 1..6}

CubeRead ==
  /\ sw.pc = "read"
  /\ LET r == CubeReadMipLevel(sw.builtin, sw.minFilter, sw.coords, sw.mipLevel)
     IN sw' = [sw EXCEPT !.pc = IF r.raised THEN "unreachable" ELSE "returned",
                         !.samples = r.samples]
  /\ UNCHANGED <<calVars, vq, rn, ck>>

InitCubeRead ==
  /\ CalInit /\ vq = VqIdle /\ rn = RnIdle /\ ck = CkIdle
  /\ \E c \in CubeDirections, l \in 0..MaxCubeMipLevel,
        b \in {"textureSampleLevel", "textureGather"}, f \in {"nearest", "linear"} :
       sw = [pc |-> "read", coords |-> c, mipLevel |-> l, builtin |-> b, minFilter |-> f,
             samples |-> << >>]

NextCubeRead == CubeRead

SpecCubeRead == InitCubeRead /\ [][NextCubeRead]_vars

\* the point is less than half a texel from a face edge, on axis i
C13_NearEdge(uvw, i, size) ==
  \/ 2 * uvw.n[i] * size < uvw.d[i]
  \/ 2 * (size * uvw.d[i] - uvw.n[i] * size) < uvw.d[i]

C13_LinearOrGather ==
  isBuiltinGather(sw.builtin) \/ sw.minFilter = "linear"

\* C13: on a cube view read with linear filtering or gather, a sample point
\* within half a texel of a face edge in both u and v makes the oracle raise
\* 'corners of cubemaps are not testable'; no value is returned for it.
C13_CornerRaises ==
  (sw.pc \in {"returned", "unreachable"} /\ C13_LinearOrGather) =>
    LET uvw == convertCubeCoordToNormalized3DTextureCoord(sw.coords)
        size == CubeMipSize(sw.mipLevel)
    IN (C13_NearEdge(uvw, 1, size) /\ C13_NearEdge(uvw, 2, size)) => sw.pc = "unreachable"

\* the far corner in u, the near one in v, read by a gather
C13_Witness ==
  /\ sw.pc = "unreachable"
  /\ sw.builtin = "textureGather"
  /\ sw.mipLevel = 0
  /\ LET uvw == convertCubeCoordToNormalized3DTextureCoord(sw.coords)
     IN uvw.n[1] * 16 = 15 * uvw.d[1] /\ uvw.n[2] * 16 = uvw.d[2]


(***************************************************************************)
(* SpecCubeGen: generateSamplePointsCube for one sample point, then the    *)
(* oracle's read of the generated call.  Mip levels are in hundredths.     *)
(***************************************************************************)
kCubeMipLevelCount == MaxCubeMipLevel + 1
kMipEpsilon == 2
kSubdivisionsPerTexel == 4

quantizeMipLevel(mipLevel, mipmapFilter) ==
  LET intMip == (mipLevel \div 100) * 100
      fractionalMip == mipLevel - intMip
  IN IF mipmapFilter = "linear" THEN mipLevel
     ELSE IF fractionalMip < 50 - kMipEpsilon \/ fractionalMip > 50 + kMipEpsilon THEN mipLevel
     ELSE intMip + 50 + (IF fractionalMip < 50 THEN -kMipEpsilon ELSE kMipEpsilon)

CeilLevel(mipLevel) == -((-mipLevel) \div 100)
FloorLevel(mipLevel) == mipLevel \div 100

\* the body of coords.map((c, i) => ...) up to the generated coordinate
GenerateCubePoint(c, args) ==
  LET mipLevel == IF args.mipLevel.def
                    THEN quantizeMipLevel(args.mipLevel.v[1], args.mipmapFilter) ELSE 0
      clampedMipLevel == clamp(mipLevel, 0, (kCubeMipLevelCount - 1) * 100)
      mipSize == CubeMipSize(CeilLevel(clampedMipLevel))
      q == <<mipSize * kSubdivisionsPerTexel, mipSize * kSubdivisionsPerTexel,
             6 * kSubdivisionsPerTexel>>
      uvw0 == convertCubeCoordToNormalized3DTextureCoord(c)
      ndx == getUnusedCubeCornerSampleIndex(mipSize, uvw0)
      \* uvw[0] = clamp(uvw[0], { min: halfTexel, max: 1 - halfTexel })
      uvw == IF ndx < 0 THEN uvw0
             ELSE IF 2 * mipSize * uvw0.n[1] < uvw0.d[1]
               THEN [uvw0 EXCEPT !.n[1] = 1, !.d[1] = 2 * mipSize]
             ELSE IF 2 * mipSize * uvw0.n[1] > (2 * mipSize - 1) * uvw0.d[1]
               THEN [uvw0 EXCEPT !.n[1] = 2 * mipSize - 1, !.d[1] = 2 * mipSize]
             ELSE uvw0
      avoidEdgeCase == args.minFilter = "nearest" \/ isBuiltinGather(args.textureBuiltin)
      edgeRemainder == IF isBuiltinGather(args.textureBuiltin)
                         THEN kSubdivisionsPerTexel \div 2 ELSE 0
      v1 == [i \in 1..3 |-> (uvw.n[i] * q[i]) \div uvw.d[i]]
      v2 == [i \in 1..3 |->
               IF Abs(v1[i]) % kSubdivisionsPerTexel = edgeRemainder /\ avoidEdgeCase
                 THEN v1[i] + 1 ELSE v1[i]]
      \* (v2 + 1 / 16) / q[i]
      quantizedUVW == [n |-> [i \in 1..3 |-> 16 * v2[i] + 1], d |-> [i \in 1..3 |-> 16 * q[i]]]
  IN [coords |-> convertNormalized3DTexCoordToCubeCoord(quantizedUVW), mipLevel |-> mipLevel]

\* the mip levels softwareTextureReadLevel reads, in the order it reads them
CubeLevelsRead(textureBuiltin, mipmapFilter, mipLevel) ==
  LET clamped == clamp(mipLevel, 0, (kCubeMipLevelCount - 1) * 100)
      effectiveMipmapFilter == IF isBuiltinGather(textureBuiltin) THEN "nearest" ELSE mipmapFilter
  IN IF effectiveMipmapFilter = "linear"
       THEN <<FloorLevel(clamped), CeilLevel(clamped)>>
       ELSE <<FloorLevel(clamped + 50)>>

CubeGenerate ==
  /\ sw.pc = "generate"
  /\ LET g == GenerateCubePoint(sw.c, sw.args)
     IN sw' = [sw EXCEPT !.pc = "read", !.coords = g.coords, !.mipLevel = g.mipLevel]
  /\ UNCHANGED <<calVars, vq, rn, ck>>

\* softwareTextureRead of the generated call
CubeReadCall ==
  /\ sw.pc = "read"
  /\ LET levels == CubeLevelsRead(sw.args.textureBuiltin, sw.args.mipmapFilter, sw.mipLevel)
         raised == \E i \in DOMAIN levels :
                     CubeReadMipLevel(sw.args.textureBuiltin, sw.args.minFilter,
                                      sw.coords, levels[i]).raised
     IN sw' = [sw EXCEPT !.pc = IF raised THEN "unreachable" ELSE "returned"]
  /\ UNCHANGED <<calVars, vq, rn, ck>>

\* sample points: on-face points, and two of the 'cube-edges' list
CubeSamplePoints == CubeDirections \cup {<<100, -101, 0>>, <<0, 100, 101>>}

CubeGenArgs ==
  {[textureBuiltin |-> "textureGather", minFilter |-> f, mipmapFilter |-> "nearest",
    mipLevel |-> Undef] : f \in {"nearest", "linear"}}
  \cup {[textureBuiltin |-> "textureSampleLevel", minFilter |-> f, mipmapFilter |-> mf,
         mipLevel |-> Arg(<<l>>)] :
          f \in {"nearest", "linear"}, mf \in {"nearest", "linear"},
          l \in {-100, 0, 30, 50, 100, MaxCubeMipLevel * 100 + 70}}

InitCubeGen ==
  /\ CalInit /\ vq = VqIdle /\ rn = RnIdle /\ ck = CkIdle
  /\ \E c \in CubeSamplePoints, args \in CubeGenArgs :
       sw = [pc |-> "generate", c |-> c, args |-> args, coords |-> << >>, mipLevel |-> 0]

NextCubeGen ==
  \/ CubeGenerate
  \/ CubeReadCall

SpecCubeGen == InitCubeGen /\ [][NextCubeGen]_vars

\* C14: at every mip level the oracle reads for a generated cube call the
\* coordinate is not a cube corner, so the oracle never raises the
\* untestable-corner signal on a generated call.
C14_GeneratedNeverCorner ==
  /\ sw.pc # "unreachable"
  /\ sw.pc \in {"read", "returned"} =>
       LET levels == CubeLevelsRead(sw.args.textureBuiltin, sw.args.mipmapFilter, sw.mipLevel)
       IN (isBuiltinGather(sw.args.textureBuiltin) \/ sw.args.minFilter = "linear") =>
            \A i \in DOMAIN levels :
              getUnusedCubeCornerSampleIndex(
                CubeMipSize(levels[i]),
                convertCubeCoordToNormalized3DTextureCoord(sw.coords)) < 0


(***************************************************************************)
(* SpecGen: generateTextureBuiltinInputsImpl for one 2d sample point.      *)
(* A raw coordinate c is held in eighths of a base-level texel, a          *)
(* generated coordinate as the fraction n / d.                             *)
(***************************************************************************)
kGenBaseSize == <<4, 2, 1>>
kGenMipLevelCount == 2

\* JavaScript's %: the sign of the dividend
JsRem(a, b) == IF a < 0 THEN -((-a) % b) ELSE a % b

isTexelEdgeCase_NoAbs(v1, edgeRemainder) == JsRem(v1, kSubdivisionsPerTexel) = edgeRemainder

isTexelEdgeCase(v1, edgeRemainder) == Abs(JsRem(v1, kSubdivisionsPerTexel)) = edgeRemainder

euclideanModulo(n, m) == JsRem(JsRem(n, m) + m, m)

avoidTextureEdge(addressMode, textureDimensionUnits, v) ==
  IF addressMode = "repeat" THEN v
  ELSE LET inside == euclideanModulo(v, textureDimensionUnits)
           outside == v - inside
       IN outside + clamp(inside, 1, textureDimensionUnits - 1)

\* the body of coords.map((c, i) => ...) up to the generated coordinate
GeneratePoint(c, args) ==
  LET mipLevel == IF args.mipLevel.def
                    THEN quantizeMipLevel(args.mipLevel.v[1], args.mipmapFilter) ELSE 0
      clampedMipLevel == clamp(mipLevel, 0, (kGenMipLevelCount - 1) * 100)
      mipSize == virtualMipSize(kGenBaseSize, FloorLevel(clampedMipLevel))
      q == [i \in 1..2 |-> mipSize[i] * kSubdivisionsPerTexel]
      avoidEdgeCase == ~args.sampler \/ args.minFilter = "nearest"
                       \/ isBuiltinGather(args.textureBuiltin)
      edgeRemainder == IF isBuiltinGather(args.textureBuiltin)
                         THEN kSubdivisionsPerTexel \div 2 ELSE 0
      \* Math.floor(v * q[i]), v = c[i] / (8 * base size)
      v1 == [i \in 1..2 |-> (c[i] * q[i]) \div (8 * kGenBaseSize[i])]
      v2 == [i \in 1..2 |->
               IF isTexelEdgeCase(v1[i], edgeRemainder) /\ avoidEdgeCase
                 THEN v1[i] + 1 ELSE v1[i]]
      v3 == [i \in 1..2 |->
               IF isBuiltinGather(args.textureBuiltin)
                 THEN avoidTextureEdge(args.addressMode, q[i], v2[i]) ELSE v2[i]]
  IN [coords |-> [n |-> v3, d |-> q], mipLevel |-> mipLevel]

Generate ==
  /\ sw.pc = "generate"
  /\ LET g == GeneratePoint(sw.c, sw.args)
     IN sw' = [sw EXCEPT !.pc = "generated", !.coords = g.coords, !.mipLevel = g.mipLevel]
  /\ UNCHANGED <<calVars, vq, rn, ck>>

GenArgs ==
  {[textureBuiltin |-> "textureGather", sampler |-> TRUE, minFilter |-> f,
    mipmapFilter |-> "nearest", addressMode |-> am, mipLevel |-> Undef] :
     f \in {"nearest", "linear"}, am \in {"clamp-to-edge", "repeat", "mirror-repeat"}}
  \cup {[textureBuiltin |-> "textureSampleLevel", sampler |-> TRUE, minFilter |-> f,
         mipmapFilter |-> f, addressMode |-> "clamp-to-edge", mipLevel |-> Arg(<<l>>)] :
          f \in {"nearest", "linear"}, l \in {-100, 30, 100}}
  \cup {[textureBuiltin |-> "textureLoad", sampler |-> FALSE, minFilter |-> "nearest",
         mipmapFilter |-> "nearest", addressMode |-> "clamp-to-edge", mipLevel |-> Arg(<<l>>)] :
          l \in {0, 100}}

InitGen ==
  /\ CalInit /\ vq = VqIdle /\ rn = RnIdle /\ ck = CkIdle
  /\ \E x \in (-MaxGenStep)..(8 * kGenBaseSize[1] + MaxGenStep),
        y \in (-MaxGenStep)..(8 * kGenBaseSize[2] + MaxGenStep), args \in GenArgs :
       sw = [pc |-> "generate", c |-> <<x, y>>, args |-> args,
             coords |-> << >>, mipLevel |-> 0]

NextGen == Generate

SpecGen == InitGen /\ [][NextGen]_vars

\* the size of the mip level the generator quantizes for
C15_MipSize ==
  virtualMipSize(kGenBaseSize, clamp(sw.mipLevel, 0, (kGenMipLevelCount - 1) * 100) \div 100)

\* C15: on every axis n = coordinate * 4 * (mip level size) is an integer;
\* with no sampler or a nearest minFilter (and no gather) n mod 4 is not 0;
\* for a gather n mod 4 is not 2; negative coordinates included.
C15_OnGridOffEdges ==
  sw.pc = "generated" =>
    \A i \in 1..2 :
      LET num == sw.coords.n[i] * 4 * C15_MipSize[i]
          n == num \div sw.coords.d[i]
      IN /\ num % sw.coords.d[i] = 0
         /\ (~isBuiltinGather(sw.args.textureBuiltin)
             /\ (~sw.args.sampler \/ sw.args.minFilter = "nearest")) => n % 4 # 0
         /\ isBuiltinGather(sw.args.textureBuiltin) => n % 4 # 2

\* a gather point left of the texture whose raw position is a texel centre
C15_Witness ==
  /\ sw.pc = "generated"
  /\ isBuiltinGather(sw.args.textureBuiltin)
  /\ sw.c[1] = -4
  /\ sw.coords.n[1] = -1


(***************************************************************************)
(* Claims about binning (SpecRun)                                          *)
(***************************************************************************)
C16_Names == SeqToSet(kTextureCallArgNames)
C16_Constant(name) == name \in {"offset", "component"}

\* same builtin, same present arguments, same vector sizes, equal constants
C16_SameShapeButTypes(a, b) ==
  /\ a.builtin = b.builtin
  /\ \A name \in C16_Names :
       /\ a.args[name].def = b.args[name].def
       /\ a.args[name].def =>
            /\ Len(a.args[name].v) = Len(b.args[name].v)
            /\ C16_Constant(name) => a.args[name].v = b.args[name].v

\* every present argument has the same numeric representation in both calls
C16_SameRepresentations(a, b) ==
  \A name \in C16_Names :
    (a.args[name].def /\ ~C16_Constant(name)) =>
      getCallArgType(a, name) = getCallArgType(b, name)

C16_Bins(P(_, _)) ==
  rn.pc \in {"created", "mapping", "done"} =>
    \A b \in DOMAIN rn.binned :
      LET bin == [k \in DOMAIN rn.binned[b] |-> rn.calls[rn.binned[b][k]]]
      IN /\ buildBinnedCalls(bin).asserted
         /\ \A k \in DOMAIN bin : P(bin[1], bin[k])

C16_LayoutFits(first, call) ==
  /\ buildBinnedCalls(<<first>>).expr = buildBinnedCalls(<<call>>).expr
  /\ buildBinnedCalls(<<first>>).fields = buildBinnedCalls(<<call>>).fields

\* C16 (as stated): the calls of one bin have the same builtin, present
\* arguments, vector sizes, numeric representation of every argument and
\* equal offset and component constants, so the first call's expression and
\* struct layout fit every call of the bin and the binning assertion holds.
C16_IdenticalShape ==
  C16_Bins(LAMBDA first, call :
             /\ C16_SameShapeButTypes(first, call)
             /\ C16_SameRepresentations(first, call)
             /\ C16_LayoutFits(first, call))

\* C16 (amended): as above, with the numeric representation of the
\* coordinates only; the binning assertion holds.
C16_IdenticalShapeCoordType ==
  C16_Bins(LAMBDA first, call :
             /\ C16_SameShapeButTypes(first, call)
             /\ first.coordType = call.coordType
             /\ buildBinnedCalls(<<first>>).expr = buildBinnedCalls(<<call>>).expr)

\* two gathers that differ in coordinates share a bin, a third one with
\* another component constant has its own
C16_Witness ==
  /\ rn.pc = "created" /\ Len(rn.calls) = 3
  /\ rn.binned = << <<1, 3>>, <<2>> >>
  /\ rn.calls[1].args["coords"] # rn.calls[3].args["coords"]
  /\ rn.calls[1].builtin = "textureGather" /\ rn.calls[2].builtin = "textureGather"
  /\ rn.calls[1].args["component"] # rn.calls[2].args["component"]


(***************************************************************************)
(* SpecGrad: softwareTextureReadGrad, up to the mip level it hands to      *)
(* softwareTextureReadLevel.  Biases and software mip levels are in        *)
(* hundredths; the level handed on is in units of 1/kLevelDen.             *)
(***************************************************************************)
kBiasMin == -1600
kBiasMax == 1599
kLevelDen == 100 * One

\* getMixWeightByTypeForMipLevel, mipLevel in hundredths; the result is in
\* units of 1/kLevelDen.  stageWeights is the device's record of curves for
\* the stage.  lerp(a, b, t) is a + (b - a) * t.
getMixWeightByTypeForMipLevel(stageWeights, weightType, mipLevel) ==
  IF weightType = "identity" THEN euclideanModulo(mipLevel, 100) * One
  ELSE
    LET weights == stageWeights[weightType]
        steps == Cardinality(DOMAIN weights) - 1
        w100 == euclideanModulo(mipLevel, 100) * steps
        lowerNdx == w100 \div 100
        upperNdx == (w100 + 99) \div 100
        mix100 == w100 % 100
    IN weights[lowerNdx] * 100 + (weights[upperNdx] - weights[lowerNdx]) * mix100

getWeightForMipLevel(stageWeights, weightType, mipLevelCount, mipLevel) ==
  IF mipLevel < 0 \/ mipLevel >= mipLevelCount * 100 THEN kLevelDen
  ELSE getMixWeightByTypeForMipLevel(stageWeights, weightType, mipLevel)

mapSoftwareMipLevelToGPUMipLevel(weights, mipLevel) ==
  LET baseLevel == mipLevel \div 100
      softwareMix == mipLevel - baseLevel * 100
  IN baseLevel * kLevelDen
     + getMixWeightByTypeForMipLevel(weights, "softwareMixToGPUMixGradWeights", softwareMix)

RECURSIVE Log2(_)
\* log2 of a power of two
Log2(n) == IF n <= 1 THEN 0 ELSE 1 + Log2(n \div 2)

dotProduct(a, b) ==
  LET RECURSIVE Sum(_)
      Sum(i) == IF i = 0 THEN 0 ELSE a[i] * b[i] + Sum(i - 1)
  IN Sum(Len(a))

\* computeMipLevelFromGradients, in hundredths.  ddx and ddy are given as
\* multiples of one texel (ddx[i] / textureSize[i]), so that scaling by the
\* texture size gives ddx[i]; deltaMax is a power of two on the inputs used.
computeMipLevelFromGradients(ddx, ddy) ==
  LET dotDDX == dotProduct(ddx, ddx)
      dotDDY == dotProduct(ddy, ddy)
      deltaMax == Max(dotDDX, dotDDY)
  IN 50 * Log2(deltaMax)

bias_Max16(call) == IF call.bias.def THEN clamp(call.bias.v, kBiasMin, 1600) ELSE 0

\* `call.bias === undefined ? 0 : clamp(call.bias, { min: -16.0, max: 15.99 })`
bias(call) == IF call.bias.def THEN clamp(call.bias.v, kBiasMin, kBiasMax) ELSE 0

\* softwareTextureReadGrad: the bias it uses, the clamped software level of
\* the gradient branch, and the level handed to softwareTextureReadLevel.
softwareTextureReadGrad(weights, mipLevelCount, call) ==
  IF call.ddx.def
  THEN LET mipLevel == computeMipLevelFromGradients(call.ddx.v, call.ddy.v)
           clampedMipLevel == clamp(mipLevel + bias(call), 0, (mipLevelCount - 1) * 100)
       IN [bias |-> bias(call), clampedMipLevel |-> clampedMipLevel,
           mipLevel |-> mapSoftwareMipLevelToGPUMipLevel(weights, clampedMipLevel)]
  ELSE LET level == (IF call.mipLevel.def THEN call.mipLevel.v ELSE 0) + bias(call)
       IN [bias |-> bias(call), clampedMipLevel |-> level, mipLevel |-> level * One]

\* the curves a calibration accepts
ValidCurves == {c \in AllProbedCurves : validateWeights(c) = "ok"}
GradCurves ==
  {LinearCurve,
   ProbedCurve([first |-> 0, last |-> One, cap |-> kMipLevelWeightSteps, dipAt |-> 2]),
   ProbedCurve([first |-> 0, last |-> One, cap |-> MaxCap, dipAt |-> 0])} \cap ValidCurves

\* the curves of one stage that the oracle reads
StageWeights ==
  [sampleLevelWeights : GradCurves, softwareMixToGPUMixGradWeights : GradCurves]

Opt(S) == {[def |-> FALSE, v |-> 0]} \cup {[def |-> TRUE, v |-> x] : x \in S}

BiasInputs ==
  UNION {{kBiasMin - k, kBiasMin + k, kBiasMax - k, kBiasMax + k, 50 * k, -50 * k} :
           k \in 0..MaxBiasStep}

Gradients == {<<1, 0>>, <<1, 1>>, <<2, 0>>, <<2, 2>>, <<4, 0>>}

GradCalls ==
  {[bias |-> b, mipLevel |-> l, ddx |-> [def |-> FALSE, v |-> <<>>],
    ddy |-> [def |-> FALSE, v |-> <<>>]] : b \in Opt(BiasInputs), l \in Opt({0, 100})}
  \cup {[bias |-> b, mipLevel |-> [def |-> FALSE, v |-> 0], ddx |-> [def |-> TRUE, v |-> g],
         ddy |-> [def |-> TRUE, v |-> <<1, 0>>]] : b \in Opt(BiasInputs), g \in Gradients}

ReadGrad ==
  /\ sw.pc = "grad"
  /\ sw' = [sw EXCEPT !.pc = "gradDone",
                      !.out = softwareTextureReadGrad(sw.weights, sw.mipLevelCount, sw.call)]
  /\ UNCHANGED <<calVars, vq, rn, ck>>

InitGrad ==
  /\ CalInit /\ vq = VqIdle /\ rn = RnIdle /\ ck = CkIdle
  /\ \E weights \in StageWeights, n \in 1..3, call \in GradCalls :
       sw = [pc |-> "grad", weights |-> weights, mipLevelCount |-> n, call |-> call,
             out |-> [bias |-> 0, clampedMipLevel |-> 0, mipLevel |-> 0]]

NextGrad == ReadGrad

SpecGrad == InitGrad /\ [][NextGrad]_vars

\* C17: for a call carrying a bias, the bias added to the mip level is the
\* input clamped to [-16, 15.99]: -16 below the range, 15.99 above it, the
\* input itself inside it; the level handed on is built from that bias.
C17_BiasClamped ==
  (sw.pc = "gradDone" /\ sw.call.bias.def) =>
    LET in == sw.call.bias.v
        eff == IF in < -1600 THEN -1600 ELSE IF in > 1599 THEN 1599 ELSE in
    IN /\ sw.out.bias = eff
       /\ ~sw.call.ddx.def =>
            sw.out.mipLevel = ((IF sw.call.mipLevel.def THEN sw.call.mipLevel.v ELSE 0) + eff) * One
       /\ sw.call.ddx.def =>
            sw.out.clampedMipLevel =
              clamp(computeMipLevelFromGradients(sw.call.ddx.v, sw.call.ddy.v) + eff,
                    0, (sw.mipLevelCount - 1) * 100)

\* a bias of 16.00, just above the range, is used as 15.99
C17_Witness ==
  /\ sw.pc = "gradDone" /\ sw.call.bias.def /\ sw.call.bias.v = 1600
  /\ ~sw.call.ddx.def /\ sw.out.bias = 1599 /\ sw.out.mipLevel = 1599 * One


(***************************************************************************)
(* SpecLevel: softwareTextureReadLevel.  The mip level is in hundredths;   *)
(* the result holds each component times kLevelDen, so that the weighted   *)
(* sum of two levels stays an integer.                                     *)
(***************************************************************************)
\* getEffectiveLodClamp, in hundredths; raised: one of its asserts fails
getEffectiveLodClamp(builtin, sampler, mipLevelCount) ==
  LET lodMinClamp == IF isBuiltinGather(builtin) \/ ~sampler.lodMinClamp.def
                       THEN 0 ELSE sampler.lodMinClamp.v
      lodMaxClamp == IF isBuiltinGather(builtin) \/ ~sampler.lodMaxClamp.def
                       THEN (mipLevelCount - 1) * 100 ELSE sampler.lodMaxClamp.v
  IN [min |-> lodMinClamp, max |-> lodMaxClamp,
      raised |-> ~(/\ lodMinClamp >= 0 /\ lodMinClamp < mipLevelCount * 100
                   /\ lodMaxClamp >= 0 /\ lodMaxClamp < mipLevelCount * 100
                   /\ lodMinClamp <= lodMinClamp)]

Scaled(v, k) == [c \in DOMAIN v |-> v[c] * k]

softwareTextureReadLevel_NearestCeil(stageWeights, call, format, sampler, mipLevel) ==
  LET lodClampMinMax == getEffectiveLodClamp(call.builtin, sampler, kTexMipLevelCount)
      clampedMipLevel == clamp(mipLevel, lodClampMinMax.min, lodClampMinMax.max)
      read(level) == softwareTextureReadMipLevel(call, format, sampler, level)
  IN IF ~sampler.def
       THEN [raised |-> FALSE, v |-> Scaled(read(mipLevel \div 100), kLevelDen)]
     ELSE IF lodClampMinMax.raised THEN [raised |-> TRUE, v |-> RGBA(0, 0, 0, 0)]
     ELSE IF ~isBuiltinGather(call.builtin) /\ sampler.mipmapFilter = "linear"
       THEN LET rootMipLevel == clampedMipLevel \div 100
                nextMipLevel == (clampedMipLevel + 99) \div 100
                t0 == read(rootMipLevel)
                t1 == read(nextMipLevel)
                weightType == IF call.builtin = "textureSampleLevel"
                                THEN "sampleLevelWeights" ELSE "identity"
                mix == getWeightForMipLevel(stageWeights, weightType, kTexMipLevelCount,
                                            clampedMipLevel)
            IN IF mix < 0 \/ mix > kLevelDen THEN [raised |-> TRUE, v |-> RGBA(0, 0, 0, 0)]
               ELSE [raised |-> FALSE,
                     v |-> [c \in DOMAIN t0 |-> t0[c] * (kLevelDen - mix) + t1[c] * mix]]
     ELSE [raised |-> FALSE,
           v |-> Scaled(read((clampedMipLevel + 50 + 99) \div 100), kLevelDen)]

\* softwareTextureReadLevel.  Without a sampler the level is read as given
\* (the callers hand an integer level); with one, the lod clamp is applied
\* and the level is blended (linear) or rounded (nearest, gathers).
softwareTextureReadLevel(stageWeights, call, format, sampler, mipLevel) ==
  LET lodClampMinMax == getEffectiveLodClamp(call.builtin, sampler, kTexMipLevelCount)
      clampedMipLevel == clamp(mipLevel, lodClampMinMax.min, lodClampMinMax.max)
      read(level) == softwareTextureReadMipLevel(call, format, sampler, level)
  IN IF ~sampler.def
       THEN [raised |-> FALSE, v |-> Scaled(read(mipLevel \div 100), kLevelDen)]
     ELSE IF lodClampMinMax.raised THEN [raised |-> TRUE, v |-> RGBA(0, 0, 0, 0)]
     ELSE IF ~isBuiltinGather(call.builtin) /\ sampler.mipmapFilter = "linear"
       THEN LET rootMipLevel == clampedMipLevel \div 100
                nextMipLevel == (clampedMipLevel + 99) \div 100
                t0 == read(rootMipLevel)
                t1 == read(nextMipLevel)
                weightType == IF call.builtin = "textureSampleLevel"
                                THEN "sampleLevelWeights" ELSE "identity"
                mix == getWeightForMipLevel(stageWeights, weightType, kTexMipLevelCount,
                                            clampedMipLevel)
            IN IF mix < 0 \/ mix > kLevelDen THEN [raised |-> TRUE, v |-> RGBA(0, 0, 0, 0)]
               ELSE [raised |-> FALSE,
                     v |-> [c \in DOMAIN t0 |-> t0[c] * (kLevelDen - mix) + t1[c] * mix]]
     ELSE [raised |-> FALSE, v |-> Scaled(read((clampedMipLevel + 50) \div 100), kLevelDen)]

LevelSampler(mipmapFilter, lodMinClamp, lodMaxClamp) ==
  Sampler("nearest") @@ [mipmapFilter |-> mipmapFilter, lodMinClamp |-> lodMinClamp,
                         lodMaxClamp |-> lodMaxClamp]

LevelSamplers ==
  {NoSampler @@ [mipmapFilter |-> "nearest", lodMinClamp |-> [def |-> FALSE, v |-> 0],
                 lodMaxClamp |-> [def |-> FALSE, v |-> 0]]}
  \cup {LevelSampler(f, lo, hi) : f \in {"nearest", "linear"},
          lo \in Opt({0, 50}), hi \in Opt({50, 100})}

LevelCalls ==
  {[builtin |-> b, coordType |-> "f", coordDen |-> 8,
    args |-> CallArgs(c, Undef, Undef, Undef)] :
     b \in {"textureSampleLevel", "textureSampleBias"}, c \in {<<2, 2>>, <<6, 2>>}}
  \cup {[builtin |-> "textureGather", coordType |-> "f", coordDen |-> 8,
         args |-> CallArgs(<<4, 4>>, Undef, Arg(<<0>>), Undef)]}
  \cup {[builtin |-> "textureLoad", coordType |-> "i", coordDen |-> 1,
         args |-> CallArgs(<<0, 0>>, Arg(<<l>>), Undef, Undef)] : l \in {0, 1}}

\* the mip levels handed in: every quarter level from -0.5 on
LevelInputs == {25 * k - 50 : k \in 0..MaxLevelStep}

ReadLevel ==
  /\ sw.pc = "level"
  /\ sw' = [sw EXCEPT !.pc = "levelDone",
                      !.out = softwareTextureReadLevel(sw.weights, sw.call, sw.format,
                                                       sw.sampler, sw.mipLevel)]
  /\ UNCHANGED <<calVars, vq, rn, ck>>

InitLevel ==
  /\ CalInit /\ vq = VqIdle /\ rn = RnIdle /\ ck = CkIdle
  /\ \E weights \in StageWeights, call \in LevelCalls, sampler \in LevelSamplers,
        mipLevel \in LevelInputs :
       /\ sampler.def <=> call.builtin # "textureLoad"
       /\ ~sampler.def => mipLevel = 100 * call.args["mipLevel"].v[1]
       /\ sw = [pc |-> "level", weights |-> weights, call |-> call, format |-> "rgba8unorm",
                sampler |-> sampler, mipLevel |-> mipLevel,
                out |-> [raised |-> FALSE, v |-> RGBA(0, 0, 0, 0)]]

NextLevel == ReadLevel

SpecLevel == InitLevel /\ [][NextLevel]_vars

C18_IntegerLevelInClamp ==
  LET lodClamp == getEffectiveLodClamp(sw.call.builtin, sw.sampler, kTexMipLevelCount)
  IN /\ sw.mipLevel % 100 = 0
     /\ ~lodClamp.raised
     /\ lodClamp.min <= sw.mipLevel /\ sw.mipLevel <= lodClamp.max

\* C18: when the level handed in is an exact integer L inside the lod clamp
\* range, the result is the single-level read of level L, for every mipmap
\* filter and every calibrated curve.
C18_IntegerLevelIsSingleRead ==
  (sw.pc = "levelDone" /\ C18_IntegerLevelInClamp) =>
    /\ ~sw.out.raised
    /\ sw.out.v = Scaled(softwareTextureReadMipLevel(sw.call, sw.format, sw.sampler,
                                                     sw.mipLevel \div 100), kLevelDen)

\* level 1 exactly, linear mipmap filter, a curve with a dip: the result is
\* the level-1 read, which differs from the level-0 read
C18_Witness ==
  /\ sw.pc = "levelDone" /\ C18_IntegerLevelInClamp
  /\ sw.mipLevel = 100 /\ sw.sampler.def /\ sw.sampler.mipmapFilter = "linear"
  /\ sw.call.builtin = "textureSampleLevel"
  /\ sw.weights.sampleLevelWeights # LinearCurve
  /\ sw.out.v = Scaled(softwareTextureReadMipLevel(sw.call, sw.format, sw.sampler, 1), kLevelDen)
  /\ sw.out.v # Scaled(softwareTextureReadMipLevel(sw.call, sw.format, sw.sampler, 0), kLevelDen)


(***************************************************************************)
(* SpecGather: softwareTextureReadMipLevel on gather calls of the 2x2      *)
(* texture.  Coordinates are normalized, in eighths.                       *)
(***************************************************************************)
GatherAddressModes == {"clamp-to-edge", "repeat", "mirror-repeat"}

GatherInputs ==
  {[format |-> f,
    sampler |-> [Sampler("nearest") EXCEPT !.addressModeU = mu, !.addressModeV = mv],
    mipLevel |-> l,
    call |-> [builtin |-> "textureGather", coordType |-> "f", coordDen |-> 8,
              args |-> CallArgs(<<x, y>>, Undef, k, o)]] :
     f \in CheckFormats, mu \in GatherAddressModes, mv \in GatherAddressModes, l \in {0, 1},
     x \in {0, 3, 4, 5, MaxGatherCoord}, y \in {0, 3, 4, 5, MaxGatherCoord},
     k \in {Arg(<<0>>), Arg(<<1>>)}, o \in {Undef, Arg(<<1, 0>>)}}

GatherRead ==
  /\ sw.pc = "gather"
  /\ sw' = [sw EXCEPT !.pc = "gatherDone",
                      !.out = softwareTextureReadMipLevel(sw.in.call, sw.in.format,
                                                          sw.in.sampler, sw.in.mipLevel)]
  /\ UNCHANGED <<calVars, vq, rn, ck>>

InitGather ==
  /\ CalInit /\ vq = VqIdle /\ rn = RnIdle /\ ck = CkIdle
  /\ \E in \in GatherInputs : sw = [pc |-> "gather", in |-> in, out |-> RGBA(0, 0, 0, 0)]

NextGather == GatherRead

SpecGather == InitGather /\ [][NextGather]_vars

\* the lower texel of the footprint: floor(coords * size - 0.5 + offset)
C19_P0 ==
  LET size == virtualMipSize(kTexSize, sw.in.mipLevel)
      coords == sw.in.call.args["coords"].v
      offset == sw.in.call.args["offset"]
  IN [i \in 1..2 |-> ((coords[i] * size[i] - 4) \div 8) + (IF offset.def THEN offset.v[i] ELSE 0)]

\* the gathered channel of the texel at column x, row y, after the sampler's
\* address modes
C19_Texel(x, y) ==
  LET size == virtualMipSize(kTexSize, sw.in.mipLevel)
      at == applyAddressModesToCoords(<<sw.in.sampler.addressModeU, sw.in.sampler.addressModeV>>,
                                      size, <<x, y>>)
      rgba == convertPerTexelComponentToResultFormat(
                TexelColor(sw.in.format, sw.in.mipLevel, at[1], at[2]), sw.in.format,
                Den(sw.in.format))
  IN rgba[kRGBAComponents[sw.in.call.args["component"].v[1] + 1]]

C19_Left == C19_P0[1]
C19_Right == C19_P0[1] + 1
C19_Top == C19_P0[2]
C19_Bottom == C19_P0[2] + 1

kCompareFunctions ==
  {"never", "less", "equal", "less-equal", "greater", "not-equal", "greater-equal", "always"}

\* depth references: evenly spread ones and two that equal a texel
DepthRefs == {16384 * k : k \in 0..MaxRefStep} \cup {1000, 40000}

CompareCallArgs(coords, depthRef) ==
  [CallArgs(coords, Undef, Undef, Undef) EXCEPT !["depthRef"] = Arg(<<depthRef>>)]

CompareInputs ==
  {[format |-> "depth16unorm",
    sampler |-> Sampler(filter) @@ [compare |-> cmp],
    mipLevel |-> l,
    call |-> [builtin |-> b, coordType |-> "f", coordDen |-> 8,
              args |-> CompareCallArgs(<<x, y>>, ref)]] :
     filter \in {"nearest", "linear"}, cmp \in kCompareFunctions, l \in {0, 1},
     b \in {"textureSampleCompare", "textureSampleCompareLevel", "textureGatherCompare"},
     x \in {1, 3, 4, 5}, y \in {2, 4, 7}, ref \in DepthRefs}

CompareRead ==
  /\ sw.pc = "compare"
  /\ sw' = [sw EXCEPT !.pc = "compareDone",
                      !.out = softwareTextureReadMipLevel(sw.in.call, sw.in.format,
                                                          sw.in.sampler, sw.in.mipLevel)]
  /\ UNCHANGED <<calVars, vq, rn, ck>>

InitCompare ==
  /\ CalInit /\ vq = VqIdle /\ rn = RnIdle /\ ck = CkIdle
  /\ \E in \in CompareInputs : sw = [pc |-> "compare", in |-> in, out |-> RGBA(0, 0, 0, 0)]

NextCompare == CompareRead

SpecCompare == InitCompare /\ [][NextCompare]_vars

\* the texel fetched at column x, row y (clamp-to-edge)
C20_Texel(x, y) ==
  LET size == virtualMipSize(kTexSize, sw.in.mipLevel)
  IN TexelColor(sw.in.format, sw.in.mipLevel, clamp(x, 0, size[1] - 1),
                clamp(y, 0, size[2] - 1))["Depth"]

\* the sampler's compare function on (depth reference, texel)
C20_Passes(texel) ==
  LET ref == sw.in.call.args["depthRef"].v[1]
      cmp == sw.in.sampler.compare
  IN \/ cmp = "always"
     \/ cmp = "less" /\ ref < texel
     \/ cmp = "less-equal" /\ ref <= texel
     \/ cmp = "equal" /\ ref = texel
     \/ cmp = "greater-equal" /\ ref >= texel
     \/ cmp = "greater" /\ ref > texel
     \/ cmp = "not-equal" /\ ref # texel

\* 1 or 0 for the texel at column x, row y
C20_Bit(x, y) == IF C20_Passes(C20_Texel(x, y)) THEN 1 ELSE 0

\* sample position in eighths of a texel: coords * size - 0.5
C20_At8 ==
  LET size == virtualMipSize(kTexSize, sw.in.mipLevel)
  IN [i \in 1..2 |-> sw.in.call.args["coords"].v[i] * size[i] - 4]

C20_Lo == [i \in 1..2 |-> C20_At8[i] \div 8]
C20_Frac == [i \in 1..2 |-> C20_At8[i] - 8 * C20_Lo[i]]

\* what the read returns when every fetched texel is first replaced by its
\* compare bit: the bits of the four corners for a gather, the bit of the
\* nearest texel, or the bilinear sum of the four bits (in 64ths)
C20_Expected ==
  LET x0 == C20_Lo[1]
      y0 == C20_Lo[2]
      one == Den(sw.in.format)
  IN IF isBuiltinGather(sw.in.call.builtin)
       THEN RGBA(one * C20_Bit(x0, y0 + 1), one * C20_Bit(x0 + 1, y0 + 1),
                 one * C20_Bit(x0 + 1, y0), one * C20_Bit(x0, y0))
     ELSE IF sw.in.sampler.filter = "linear"
       THEN RGBA(one * ((8 - C20_Frac[1]) * (8 - C20_Frac[2]) * C20_Bit(x0, y0)
                        + C20_Frac[1] * (8 - C20_Frac[2]) * C20_Bit(x0 + 1, y0)
                        + (8 - C20_Frac[1]) * C20_Frac[2] * C20_Bit(x0, y0 + 1)
                        + C20_Frac[1] * C20_Frac[2] * C20_Bit(x0 + 1, y0 + 1)),
                 0, 0, 64 * one)
     ELSE RGBA(one * C20_Bit((C20_At8[1] + 4) \div 8, (C20_At8[2] + 4) \div 8), 0, 0, one)

C20_AllOutputs(v) ==
  IF isBuiltinGather(sw.in.call.builtin) THEN sw.out = RGBA(v, v, v, v) ELSE sw.out["R"] = v

C20_Full ==
  IF ~isBuiltinGather(sw.in.call.builtin) /\ sw.in.sampler.filter = "linear"
    THEN 64 * Den(sw.in.format) ELSE Den(sw.in.format)

\* C20: in comparison sampling each fetched texel is replaced, before any
\* weighting, by 1 or 0 according to the sampler's compare function on
\* (depth reference, texel); 'always' gives 1 and 'never' gives 0 for every
\* depth reference and texel.
C20_CompareBeforeWeighting ==
  sw.pc = "compareDone" =>
    /\ sw.out = C20_Expected
    /\ sw.in.sampler.compare = "always" => C20_AllOutputs(C20_Full)
    /\ sw.in.sampler.compare = "never" => C20_AllOutputs(0)

\* a linear comparison read whose four texels do not all compare alike: the
\* result lies strictly between 0 and 1
C20_Witness ==
  /\ sw.pc = "compareDone" /\ sw.in.call.builtin = "textureSampleCompare"
  /\ sw.in.sampler.filter = "linear" /\ sw.in.sampler.compare = "less"
  /\ sw.in.mipLevel = 0
  /\ C20_Bit(C20_Lo[1], C20_Lo[2]) # C20_Bit(C20_Lo[1] + 1, C20_Lo[2] + 1)
  /\ sw.out["R"] > 0 /\ sw.out["R"] < C20_Full
  /\ sw.out = C20_Expected


(***************************************************************************)
(* SpecLinear: the 'linear' filter of softwareTextureReadMipLevel on a     *)
(* non-cube 1d, 2d or 3d level.  Positions are in eighths of a texel and   *)
(* weights in units of 1 / 8^dim.                                          *)
(***************************************************************************)
\* a texel outside the level: `texels[mipLevel].color` has nothing there
kNoTexel == -1000000

linearFilterSamples_P0Full(at8) ==
  LET p0 == [i \in DOMAIN at8 |-> at8[i] \div 8]
      p1 == [i \in DOMAIN p0 |-> p0[i] + 1]
      p1W == [i \in DOMAIN at8 |-> at8[i] - 8 * p0[i]]
      p0W == [i \in DOMAIN at8 |-> 8]
      p == <<p0, p1>>
      w == <<p0W, p1W>>
  IN CASE Len(at8) = 1 -> << [at |-> p0, weight |-> p0W[1]], [at |-> p1, weight |-> p1W[1]] >>
       [] Len(at8) = 2 ->
            [k \in 1..4 |-> [at |-> linearSamples(p0, p1)[k],
                             weight |-> <<p0W[1] * p1W[2], p1W[1] * p1W[2],
                                          p1W[1] * p0W[2], p0W[1] * p0W[2]>>[k]]]
       [] OTHER ->
            [k \in 1..8 |->
               LET x == ((k - 1) % 2) + 1
                   y == (((k - 1) \div 2) % 2) + 1
                   z == ((k - 1) \div 4) + 1
               IN [at |-> <<p[x][1], p[y][2], p[z][3]>>,
                   weight |-> w[x][1] * w[y][2] * w[z][3]]]

\* case 'linear': the samples pushed for a position, with their weights
linearFilterSamples(at8) ==
  LET p0 == [i \in DOMAIN at8 |-> at8[i] \div 8]
      p1 == [i \in DOMAIN p0 |-> p0[i] + 1]
      p1W == [i \in DOMAIN at8 |-> at8[i] - 8 * p0[i]]
      p0W == [i \in DOMAIN p1W |-> 8 - p1W[i]]
      p == <<p0, p1>>
      w == <<p0W, p1W>>
  IN CASE Len(at8) = 1 -> << [at |-> p0, weight |-> p0W[1]], [at |-> p1, weight |-> p1W[1]] >>
       [] Len(at8) = 2 ->
            [k \in 1..4 |-> [at |-> linearSamples(p0, p1)[k],
                             weight |-> <<p0W[1] * p1W[2], p1W[1] * p1W[2],
                                          p1W[1] * p0W[2], p0W[1] * p0W[2]>>[k]]]
       [] OTHER ->
            [k \in 1..8 |->
               LET x == ((k - 1) % 2) + 1
                   y == (((k - 1) \div 2) % 2) + 1
                   z == ((k - 1) \div 4) + 1
               IN [at |-> <<p[x][1], p[y][2], p[z][3]>>,
                   weight |-> w[x][1] * w[y][2] * w[z][3]]]

\* the level: every texel inside mipLevelSize holds v
UniformLoad(mipLevelSize, v, c) ==
  IF \A i \in DOMAIN c : 0 <= c[i] /\ c[i] < mipLevelSize[i] THEN v ELSE kNoTexel

\* the sampling path with a linear minFilter: position, samples, address
\* modes, load, weighted sum
LinearRead(in) ==
  LET at8 == [i \in DOMAIN in.coords |->
                in.coords[i] * in.mipLevelSize[i] - 4 + 8 * in.offset[i]]
      samples == linearFilterSamples(at8)
      RECURSIVE Sum(_)
      Sum(k) == IF k = 0 THEN 0
                ELSE UniformLoad(in.mipLevelSize, in.v,
                                 applyAddressModesToCoords(in.addressMode, in.mipLevelSize,
                                                           samples[k].at))
                     * samples[k].weight + Sum(k - 1)
  IN [samples |-> samples, out |-> Sum(Len(samples))]

RECURSIVE Pow8(_)
Pow8(n) == IF n = 0 THEN 1 ELSE 8 * Pow8(n - 1)

LinearCoords == {-5, 0, 3, 4, 8} \cup {8 + 3 * k : k \in 1..MaxLinearStep}
LinearSizes == {<<4>>, <<2, 3>>, <<2, 1, 3>>}
AddressModes == {"clamp-to-edge", "repeat", "mirror-repeat"}

LinearInputs ==
  UNION {{[mipLevelSize |-> size, coords |-> c, addressMode |-> a, v |-> v,
           offset |-> [i \in DOMAIN size |-> o]] :
            c \in [DOMAIN size -> LinearCoords], a \in [DOMAIN size -> AddressModes],
            v \in {0, 7}, o \in {0, -1}} : size \in LinearSizes}

LinearSample ==
  /\ sw.pc = "linear"
  /\ sw' = [sw EXCEPT !.pc = "linearDone", !.r = LinearRead(sw.in)]
  /\ UNCHANGED <<calVars, vq, rn, ck>>

InitLinear ==
  /\ CalInit /\ vq = VqIdle /\ rn = RnIdle /\ ck = CkIdle
  /\ \E in \in LinearInputs :
       sw = [pc |-> "linear", in |-> in, r |-> [samples |-> << >>, out |-> 0]]

NextLinear == LinearSample

SpecLinear == InitLinear /\ [][NextLinear]_vars

C21_WeightSum ==
  LET RECURSIVE Sum(_)
      Sum(k) == IF k = 0 THEN 0 ELSE sw.r.samples[k].weight + Sum(k - 1)
  IN Sum(Len(sw.r.samples))

\* C21: with linear filtering on a non-cube 1d, 2d or 3d level the corner
\* weights are each in [0, 1] and sum to 1, and a level whose texels all
\* hold v reads as v for every coordinate and combination of address modes.
C21_UniformLevelReadsItsValue ==
  sw.pc = "linearDone" =>
    LET one == Pow8(Len(sw.in.mipLevelSize))
    IN /\ \A k \in DOMAIN sw.r.samples :
            sw.r.samples[k].weight >= 0 /\ sw.r.samples[k].weight <= one
       /\ C21_WeightSum = one
       /\ sw.r.out = sw.in.v * one

\* a 3d read outside the level on two axes, with three different address
\* modes and eight samples of non-zero weight
C21_Witness ==
  /\ sw.pc = "linearDone" /\ Len(sw.in.mipLevelSize) = 3 /\ sw.in.v = 7
  /\ sw.in.addressMode = <<"mirror-repeat", "repeat", "clamp-to-edge">>
  /\ sw.in.coords[1] < 0 /\ sw.in.coords[3] > 8
  /\ \A k \in 1..8 : sw.r.samples[k].weight > 0
  /\ sw.r.out = 7 * 512


(***************************************************************************)
(* SpecAddress: applyAddressModesToCoords on integer coordinates of up to  *)
(* two axes.                                                               *)
(***************************************************************************)
AddressSizes == 1..MaxAddressSize
AddressCoords == (-MaxAddressPeriods * MaxAddressSize)..(MaxAddressPeriods * MaxAddressSize)

AddressInputs ==
  {[addressMode |-> <<a>>, mipLevelSize |-> <<size>>, coord |-> <<v>>] :
     a \in AddressModes, size \in AddressSizes, v \in AddressCoords}
  \cup {[addressMode |-> <<a, b>>, mipLevelSize |-> <<size, 2>>, coord |-> <<v, w>>] :
          a \in AddressModes, b \in AddressModes, size \in {3}, v \in -4..7, w \in {-1, 0, 1, 2}}

ApplyAddressModes ==
  /\ sw.pc = "address"
  /\ sw' = [sw EXCEPT !.pc = "addressDone",
                      !.out = applyAddressModesToCoords(sw.in.addressMode, sw.in.mipLevelSize,
                                                        sw.in.coord)]
  /\ UNCHANGED <<calVars, vq, rn, ck>>

InitAddress ==
  /\ CalInit /\ vq = VqIdle /\ rn = RnIdle /\ ck = CkIdle
  /\ \E in \in AddressInputs : sw = [pc |-> "address", in |-> in, out |-> << >>]

NextAddress == ApplyAddressModes

SpecAddress == InitAddress /\ [][NextAddress]_vars

\* C22: for each of the three addressing modes a coordinate v with
\* 0 <= v < size on its axis is returned unchanged.
C22_InsideUnchanged ==
  sw.pc = "addressDone" =>
    \A i \in DOMAIN sw.in.coord :
      (0 <= sw.in.coord[i] /\ sw.in.coord[i] < sw.in.mipLevelSize[i]) =>
        sw.out[i] = sw.in.coord[i]

\* the last texel of an axis, under each of the modes in turn
C22_Witness ==
  /\ sw.pc = "addressDone" /\ Len(sw.in.coord) = 2
  /\ sw.in.addressMode = <<"mirror-repeat", "clamp-to-edge">>
  /\ sw.in.coord = <<2, 1>> /\ sw.in.mipLevelSize = <<3, 2>> /\ sw.out = <<2, 1>>

\* C23: with 'repeat', for every integer v (negative included), integer k
\* and size >= 1, the result for v is the result for v + k * size and lies
\* in [0, size).
C23_RepeatPeriodic ==
  sw.pc = "addressDone" =>
    \A i \in DOMAIN sw.in.coord :
      sw.in.addressMode[i] = "repeat" =>
        /\ 0 <= sw.out[i] /\ sw.out[i] < sw.in.mipLevelSize[i]
        /\ \A k \in (-MaxAddressPeriods)..MaxAddressPeriods :
             applyAddressModesToCoords(<<"repeat">>, <<sw.in.mipLevelSize[i]>>,
                                       <<sw.in.coord[i] + k * sw.in.mipLevelSize[i]>>)[1]
               = sw.out[i]

\* a negative coordinate that is not a multiple of the size
C23_Witness ==
  /\ sw.pc = "addressDone" /\ sw.in.addressMode = <<"repeat">>
  /\ sw.in.mipLevelSize = <<3>> /\ sw.in.coord = <<-4>> /\ sw.out = <<2>>

\* non-negative remainder of v modulo m
C24_Mod(v, m) == ((v % m) + m) % m

\* C24: with 'mirror-repeat' the result is m when m < size and
\* 2 * size - 1 - m otherwise, m being the non-negative remainder of v
\* modulo 2 * size; so for v in [0, size) the coordinates size + v and
\* -1 - v map to size - 1 - v and v.
C24_MirrorRepeat ==
  sw.pc = "addressDone" =>
    \A i \in DOMAIN sw.in.coord :
      sw.in.addressMode[i] = "mirror-repeat" =>
        LET size == sw.in.mipLevelSize[i]
            v == sw.in.coord[i]
            mm == C24_Mod(v, 2 * size)
        IN /\ sw.out[i] = IF mm < size THEN mm ELSE 2 * size - 1 - mm
           /\ (0 <= v /\ v < size) =>
                /\ applyAddressModesToCoords(<<"mirror-repeat">>, <<size>>, <<size + v>>)[1]
                     = size - 1 - v
                /\ applyAddressModesToCoords(<<"mirror-repeat">>, <<size>>, <<-1 - v>>)[1] = v

\* a negative coordinate in a reflected period
C24_Witness ==
  /\ sw.pc = "addressDone" /\ sw.in.addressMode = <<"mirror-repeat">>
  /\ sw.in.mipLevelSize = <<4>> /\ sw.in.coord = <<-2>> /\ sw.out = <<1>>


(***************************************************************************)
(* SpecMix: a probed sampleLevelWeights curve is validated and stored, and *)
(* the oracle then blends two levels with it (textureSampleLevel, linear   *)
(* mipmapFilter).  Mip levels are in hundredths.                           *)
(***************************************************************************)
MixCall ==
  [builtin |-> "textureSampleLevel", coordType |-> "f", coordDen |-> 8,
   args |-> CallArgs(<<2, 2>>, Undef, Undef, Undef)]

MixSampler ==
  LevelSampler("linear", [def |-> FALSE, v |-> 0], [def |-> FALSE, v |-> 0])

\* the levels read: the first hundredths above level 0, and the middle
MixLevels == (0..MaxMixLevel) \cup {50}

\* the tail of queryMipLevelMixWeightsForDevice and of
\* initMipLevelWeightsForDevice: the curve is stored when no assert fires
MixValidate ==
  /\ sw.pc = "probed"
  /\ sw' = [sw EXCEPT !.pc = IF QueryOutcome(sw.probed, LinearCurve).ok
                               THEN "stored" ELSE "threw",
                      !.weights = IF QueryOutcome(sw.probed, LinearCurve).ok
                                    THEN [sampleLevelWeights |-> sw.probed,
                                          softwareMixToGPUMixGradWeights |-> LinearCurve]
                                    ELSE @]
  /\ UNCHANGED <<calVars, vq, rn, ck>>

MixRead ==
  /\ sw.pc = "stored"
  /\ sw' = [sw EXCEPT !.pc = "read",
                      !.out = softwareTextureReadLevel(sw.weights, MixCall, "rgba8unorm",
                                                       MixSampler, sw.mipLevel)]
  /\ UNCHANGED <<calVars, vq, rn, ck>>

InitMix ==
  /\ CalInit /\ vq = VqIdle /\ rn = RnIdle /\ ck = CkIdle
  /\ \E probed \in AllProbedCurves, mipLevel \in MixLevels :
       sw = [pc |-> "probed", probed |-> probed, mipLevel |-> mipLevel,
             weights |-> [sampleLevelWeights |-> NoCurve,
                          softwareMixToGPUMixGradWeights |-> NoCurve],
             out |-> [raised |-> FALSE, v |-> RGBA(0, 0, 0, 0)]]

NextMix == MixValidate \/ MixRead

SpecMix == InitMix /\ [][NextMix]_vars

\* C25: for every calibration accepted by validation every stored weight is
\* in [0, 1], and the assertion 'mix >= 0 && mix <= 1' of
\* softwareTextureReadLevel never fails.
C25_StoredWeightsInUnitRange ==
  /\ sw.pc \in {"stored", "read"} =>
       \A i \in CurveIdx : 0 <= sw.weights.sampleLevelWeights[i]
                           /\ sw.weights.sampleLevelWeights[i] <= One
  /\ sw.pc = "read" => ~sw.out.raised


(***************************************************************************)
(* Claims about failed calibrations (Spec)                                 *)
(***************************************************************************)
C26_Finished(c) == callers[c].pc \in {"initReturned", "initThrew", "returned", "threw"}

\* C26: once the probe of a (device, stage) has failed it is never retried:
\* there is one probe per (device, stage), every call for that pair fails
\* with the probe's error, and a call for another stage or device ends as
\* its own probe did.
C26_FailedProbeNeverRetried ==
  /\ \A p, q \in DOMAIN promises :
       (promises[p].dev = promises[q].dev /\ promises[p].stage = promises[q].stage) => p = q
  /\ \A c \in Callers :
       callers[c].pc # "idle" =>
         LET pr == promises[callers[c].p]
         IN /\ pr.dev = callers[c].dev /\ pr.stage = callers[c].stage
            /\ (pr.state = "rejected" /\ callers[c].how = "joinedSettled") =>
                 callers[c].pc \in {"awaiting", "initThrew", "threw"}
            /\ C26_Finished(c) =>
                 IF pr.state = "rejected"
                   THEN callers[c].pc \in {"initThrew", "threw"} /\ callers[c].err = pr.err
                   ELSE callers[c].pc \in {"initReturned", "returned"}

\* the first call's probe fails, a second call for the same device and stage
\* made after the failure fails with the same error on the same probe, and a
\* third call, for another stage, succeeds
C26_Witness ==
  /\ Len(promises) = 2
  /\ callers[1].pc = "threw" /\ callers[1].how = "started"
  /\ callers[2].pc = "threw" /\ callers[2].how = "joinedSettled"
  /\ callers[2].dev = callers[1].dev /\ callers[2].stage = callers[1].stage
  /\ callers[2].p = callers[1].p /\ callers[2].err = callers[1].err /\ callers[1].err # "none"
  /\ callers[3].pc = "returned" /\ callers[3].dev = callers[1].dev
  /\ callers[3].stage # callers[1].stage


(***************************************************************************)
(* SpecCache: checkCallResults and the oracle's reads of                   *)
(* s_deviceToMipLevelWeights for the test's device and stage.              *)
(***************************************************************************)
kTextureBuiltins ==
  {"textureGather", "textureGatherCompare", "textureLoad", "textureSample",
   "textureSampleBaseClampToEdge", "textureSampleBias", "textureSampleCompare",
   "textureSampleCompareLevel", "textureSampleGrad", "textureSampleLevel"}

builtinNeedsDerivatives(builtin) ==
  builtin \in {"textureSample", "textureSampleBias", "textureSampleCompare"}

\* The weight curves one softwareTextureRead looks up through
\* getMixWeightByTypeForMipLevel: the gradient map when the call has
\* derivatives (its own or the implicit ones), the level curve when
\* textureSampleLevel blends two levels.
CacheReads(builtin, sampler) ==
  (IF builtin = "textureSampleGrad" \/ builtinNeedsDerivatives(builtin)
     THEN {"softwareMixToGPUMixGradWeights"} ELSE {})
  \cup (IF sampler # "none" /\ ~isBuiltinGather(builtin) /\ sampler = "linear"
           /\ builtin = "textureSampleLevel"
          THEN {"sampleLevelWeights"} ELSE {})

\* checkCallResults up to the loop
CacheBegin ==
  /\ sw.pc = "start"
  /\ sw' = [sw EXCEPT !.pc = IF builtinNeedsMipLevelWeights(sw.calls[1])
                               THEN "awaitInit" ELSE "loop"]
  /\ UNCHANGED <<calVars, vq, rn, ck>>

\* `await initMipLevelWeightsForDevice(t, stage)`: it returns, with the
\* weights of the stage recorded, or it throws
CacheInitDone ==
  /\ sw.pc = "awaitInit"
  /\ \E ok \in BOOLEAN :
       sw' = [sw EXCEPT !.pc = IF ok THEN "loop" ELSE "done",
                        !.initCompleted = ok,
                        !.cached = IF ok THEN TRUE ELSE @,
                        !.ret = IF ok THEN "none" ELSE "threw"]
  /\ UNCHANGED <<calVars, vq, rn, ck>>

\* one iteration of the loop: the oracle computes the call's expected value;
\* a look-up of weights that are not there throws
CacheCall ==
  /\ sw.pc = "loop"
  /\ LET callIdx == sw.callIdx
         types == CacheReads(sw.calls[callIdx], sw.mipmapFilter)
         missing == types # {} /\ ~sw.cached
     IN sw' = [sw EXCEPT
                 !.reads = @ \cup {[callIdx |-> callIdx, weightType |-> wt,
                                    initCompleted |-> sw.initCompleted,
                                    cached |-> sw.cached] : wt \in types},
                 !.pc = IF missing \/ callIdx = Len(sw.calls) THEN "done" ELSE "loop",
                 !.ret = IF missing THEN "threw"
                         ELSE IF callIdx = Len(sw.calls) THEN "undefined" ELSE @,
                 !.callIdx = callIdx + 1]
  /\ UNCHANGED <<calVars, vq, rn, ck>>

\* cached: an earlier checkCallResults of the test may have left weights for
\* the device and stage
InitCache ==
  /\ CalInit /\ vq = VqIdle /\ rn = RnIdle /\ ck = CkIdle
  /\ \E n \in 1..MaxCacheCalls :
       \E calls \in [1..n -> kTextureBuiltins], f \in {"none", "nearest", "linear"},
          cached \in BOOLEAN :
         sw = [pc |-> "start", calls |-> calls, mipmapFilter |-> f, cached |-> cached,
               initCompleted |-> FALSE, callIdx |-> 1, reads |-> {}, ret |-> "none"]

NextCache == CacheBegin \/ CacheInitDone \/ CacheCall

SpecCache == InitCache /\ [][NextCache]_vars

C27_SameBuiltin == \A i \in DOMAIN sw.calls : sw.calls[i] = sw.calls[1]

\* C27: in a batch whose calls all use one builtin, every read of the
\* calibration cache by the oracle comes after initMipLevelWeightsForDevice
\* has completed successfully in this checkCallResults call.
C27_ReadsAfterInit ==
  (sw.pc # "idle" /\ C27_SameBuiltin) =>
    \A r \in sw.reads : r.initCompleted /\ r.cached

\* two textureSampleLevel calls with a linear mipmap filter, no weights left
\* by an earlier call: both read the level curve after the awaited init
C27_Witness ==
  /\ sw.pc = "done" /\ sw.ret = "undefined" /\ Len(sw.calls) = 2 /\ C27_SameBuiltin
  /\ sw.calls[1] = "textureSampleLevel" /\ sw.mipmapFilter = "linear"
  /\ Cardinality(sw.reads) = 2
  /\ \A r \in sw.reads : r.initCompleted /\ r.weightType = "sampleLevelWeights"


(***************************************************************************)
(* SpecLodClamp: getEffectiveLodClamp.  Lod clamps are in hundredths.      *)
(***************************************************************************)
LodClamps == Opt({50 * k : k \in 0..MaxLodStep})

EffectiveLodClamp ==
  /\ sw.pc = "lodClamp"
  /\ sw' = [sw EXCEPT !.pc = "lodClampDone",
                      !.out = getEffectiveLodClamp(sw.builtin, sw.sampler, sw.mipLevelCount)]
  /\ UNCHANGED <<calVars, vq, rn, ck>>

InitLodClamp ==
  /\ CalInit /\ vq = VqIdle /\ rn = RnIdle /\ ck = CkIdle
  /\ \E builtin \in {"textureGather", "textureSample", "textureSampleLevel"},
        lo \in LodClamps, hi \in LodClamps, n \in 1..3 :
       sw = [pc |-> "lodClamp", builtin |-> builtin, sampler |-> LevelSampler("linear", lo, hi),
             mipLevelCount |-> n, out |-> [min |-> 0, max |-> 0, raised |-> FALSE]]

NextLodClamp == EffectiveLodClamp

SpecLodClamp == InitLodClamp /\ [][NextLodClamp]_vars

\* C28: getEffectiveLodClamp fails its assertion 'lodMinClamp <= lodMaxClamp'
\* whenever the sampler's lodMinClamp is greater than its lodMaxClamp (both
\* inside [0, mipLevelCount)); it returns a range only when min <= max.
C28_MinAboveMaxFails ==
  sw.pc = "lodClampDone" =>
    LET lo == sw.sampler.lodMinClamp
        hi == sw.sampler.lodMaxClamp
        inside(x) == x.def /\ 0 <= x.v /\ x.v < sw.mipLevelCount * 100
    IN /\ (~isBuiltinGather(sw.builtin) /\ inside(lo) /\ inside(hi) /\ lo.v > hi.v)
            => sw.out.raised
       /\ ~sw.out.raised => sw.out.min <= sw.out.max


(***************************************************************************)
(* SpecIdentify: the narrowing loop of identifySamplePoints.  Texels are   *)
(* numbered 0..numTexels-1; a Set is a sequence in insertion order.  The   *)
(* probe run returns the summed weight of the candidates that contribute   *)
(* to the sample, texel t contributing with weight t + 1.                  *)
(***************************************************************************)
RECURSIVE ProbeRun(_, _)
\* `await run(...)` with the texels of setA set to 1 and the others to 0
ProbeRun(setA, contributing) ==
  IF setA = << >> THEN 0
  ELSE (IF Head(setA) \in contributing THEN Head(setA) + 1 ELSE 0)
       + ProbeRun(Tail(setA), contributing)

\* `(i & 1) === 0 ? setA : setB`, i counting from 0
SplitEvenly(unclassified) ==
  [setA |-> SelectSeq([i \in DOMAIN unclassified |-> <<i, unclassified[i]>>],
                      LAMBDA e : e[1] % 2 = 1),
   setB |-> SelectSeq([i \in DOMAIN unclassified |-> <<i, unclassified[i]>>],
                      LAMBDA e : e[1] % 2 = 0)]

Texels(indexed) == [i \in DOMAIN indexed |-> indexed[i][2]]

AfterProbe_DropLarge(stack, weights, setA, results) ==
  IF results # 0 /\ Len(setA) = 1
    THEN [stack |-> stack, weights |-> Append(weights, <<setA[1], results>>)]
    ELSE [stack |-> stack, weights |-> weights]

\* `if (components.some(c => results[c] !== 0))`: a single candidate is
\* recorded with the results, a larger set goes back on the stack
AfterProbe(stack, weights, setA, results) ==
  IF results # 0
    THEN IF Len(setA) = 1
           THEN [stack |-> stack, weights |-> Append(weights, <<setA[1], results>>)]
           ELSE [stack |-> Append(stack, setA), weights |-> weights]
    ELSE [stack |-> stack, weights |-> weights]

\* one iteration of `while (unclassifiedStack.length > 0)`; sampledTexelWeights
\* is kept as the sequence of its `set` calls
IdentifyStep ==
  /\ sw.pc = "narrowing"
  /\ Len(sw.unclassifiedStack) > 0
  /\ LET n == Len(sw.unclassifiedStack)
         unclassified == sw.unclassifiedStack[n]
         popped == SubSeq(sw.unclassifiedStack, 1, n - 1)
         split == SplitEvenly(unclassified)
         setA == Texels(split.setA)
         setB == Texels(split.setB)
         pushedB == IF Len(setB) > 0 THEN Append(popped, setB) ELSE popped
         after == AfterProbe(pushedB, sw.sampledTexelWeights, setA,
                             ProbeRun(setA, sw.contributing))
     IN sw' = [sw EXCEPT !.unclassifiedStack = after.stack,
                         !.sampledTexelWeights = after.weights,
                         !.pc = IF Len(after.stack) > 0 THEN "narrowing" ELSE "identified"]
  /\ UNCHANGED <<calVars, vq, rn, ck>>

InitIdentify ==
  /\ CalInit /\ vq = VqIdle /\ rn = RnIdle /\ ck = CkIdle
  /\ \E numTexels \in 0..MaxTexels :
       \E contributing \in SUBSET (0..(numTexels - 1)) :
         sw = [pc |-> "narrowing", numTexels |-> numTexels, contributing |-> contributing,
               unclassifiedStack |-> << [i \in 1..numTexels |-> i - 1] >>,
               sampledTexelWeights |-> << >>]

NextIdentify == IdentifyStep

SpecIdentify == InitIdentify /\ [][NextIdentify]_vars

\* the loop body runs again whenever the stack is not empty
SpecIdentifyLive == SpecIdentify /\ WF_vars(NextIdentify)

C29_Exact ==
  sw.pc = "identified" =>
    /\ {sw.sampledTexelWeights[i][1] : i \in DOMAIN sw.sampledTexelWeights} = sw.contributing
    /\ Len(sw.sampledTexelWeights) = Cardinality(sw.contributing)
    /\ \A i \in DOMAIN sw.sampledTexelWeights :
         sw.sampledTexelWeights[i][2]
           = ProbeRun(<<sw.sampledTexelWeights[i][1]>>, sw.contributing)

\* C29: the narrowing loop terminates for every number of texels and, the
\* probe being non-zero exactly on sets that hold a contributing texel, it
\* records exactly the contributing texels, each once, with the result of
\* the probe in which it was the only candidate.
C29_TerminatesExact == <>(sw.pc = "identified") /\ []C29_Exact

\* five texels of which the second and the last contribute
C29_Witness ==
  /\ sw.pc = "identified" /\ sw.numTexels = 5 /\ sw.contributing = {1, 4}
  /\ Len(sw.sampledTexelWeights) = 2
  /\ {sw.sampledTexelWeights[i] : i \in 1..2} = {<<1, 2>>, <<4, 5>>}


(***************************************************************************)
(* SpecChoose: chooseMipLevel of the two call generators.  A hash is a     *)
(* number of 0..kHashRange-1 (hashU32 / 2^32 in steps of 1 / kHashRange);  *)
(* the chosen level is in tenths.                                          *)
(***************************************************************************)
kHashRange == 72

\* makeRandValue({ num, type: 'u32' }, ...): [0, num)
makeRandValue(num, hash) == (hash * num) \div kHashRange

\* makeRangeValue({ num, type: 'i32' }, ...): [-1, num]
makeRangeValue(num, hash) == ((hash * (num + 2)) \div kHashRange) - 1

\* chooseMipLevel of generateTextureBuiltinInputsImpl; both values come from
\* the hash of (i, 11)
chooseMipLevel(mipmapFilter, mipLevelCount, hash) ==
  LET innerLevelR == makeRandValue(9, hash)
      innerLevel == IF mipmapFilter = "linear" THEN innerLevelR + 1
                    ELSE IF innerLevelR < 5 THEN innerLevelR
                    ELSE innerLevelR + 1
      outerLevel == makeRangeValue(mipLevelCount - 1, hash)
  IN outerLevel * 10 + innerLevel

\* chooseMipLevel of generateSamplePointsCube
chooseMipLevelCube(mipmapFilter, mipLevelCount, hash) ==
  LET innerLevelR == makeRandValue(9, hash)
      innerLevel == IF mipmapFilter = "linear" THEN innerLevelR + 1
                    ELSE IF innerLevelR < 4 THEN innerLevelR
                    ELSE innerLevelR + 1
      outerLevel == makeRangeValue(mipLevelCount - 1, hash)
  IN outerLevel * 10 + innerLevel

ChooseMipLevel ==
  /\ sw.pc = "choose"
  /\ sw' = [sw EXCEPT !.pc = "chosen",
                      !.mipLevel = IF sw.generator = "cube"
                                     THEN chooseMipLevelCube(sw.mipmapFilter, sw.mipLevelCount,
                                                             sw.hash)
                                     ELSE chooseMipLevel(sw.mipmapFilter, sw.mipLevelCount,
                                                         sw.hash)]
  /\ UNCHANGED <<calVars, vq, rn, ck>>

InitChoose ==
  /\ CalInit /\ vq = VqIdle /\ rn = RnIdle /\ ck = CkIdle
  /\ \E generator \in {"impl", "cube"}, mipmapFilter \in {"linear", "nearest", "undefined"},
        mipLevelCount \in 1..MaxChooseLevels, hash \in 0..(kHashRange - 1) :
       sw = [pc |-> "choose", generator |-> generator, mipmapFilter |-> mipmapFilter,
             mipLevelCount |-> mipLevelCount, hash |-> hash, mipLevel |-> 0]

NextChoose == ChooseMipLevel

SpecChoose == InitChoose /\ [][NextChoose]_vars

\* the fractional part of a level in tenths
C30_Fraction(mipLevel) == ((mipLevel % 10) + 10) % 10

\* C30: in both generators chooseMipLevel never returns a level with
\* fractional part 0.5 when mipmapFilter is not linear, nor one with
\* fractional part 0 when it is linear.
C30_AvoidsCentresAndEdges ==
  sw.pc = "chosen" =>
    IF sw.mipmapFilter = "linear" THEN C30_Fraction(sw.mipLevel) # 0
    ELSE C30_Fraction(sw.mipLevel) # 5

====
